---- MODULE Spec2Model ----
(***************************************************************************)
(* A model of the journal site builder (src/build.py): the post parser,    *)
(* write_if_changed, and the incremental build() run over a content        *)
(* directory, a template directory and an output directory.                *)
(*                                                                         *)
(* Text is modelled by TLA+ strings; TLC evaluates Len, Head, Tail, SubSeq *)
(* and \o on them, so the string functions of the source are computed      *)
(* character by character as the source computes them.                     *)
(***************************************************************************)
EXTENDS Integers, Sequences, FiniteSets, TLC

(***************************************************************************)
(* Python string primitives                                                *)
(***************************************************************************)

\* the least element of a non-empty set of integers
SetMin(S) == CHOOSE x \in S : \A y \in S : x <= y

\* the greatest element of a non-empty set of integers
SetMax(S) == CHOOSE x \in S : \A y \in S : x >= y

\* s[i-1:j] of Python (1-based, both ends included, clipped to the string)
slice(s, i, j) ==
    IF i > j \/ i > Len(s) \/ j < 1 THEN ""
    ELSE SubSeq(s, IF i < 1 THEN 1 ELSE i, IF j > Len(s) THEN Len(s) ELSE j)

\* s[i] (1-based) as a one-character string, "" outside the string
ch(s, i) == slice(s, i, i)

\* the characters str.strip() removes
IsSpace(c) == c \in {" ", "\t", "\n", "\r"}


\* str.isdigit() on one ASCII character
IsDigit(c) == c \in {"0", "1", "2", "3", "4", "5", "6", "7", "8", "9"}

UpperChars == "ABCDEFGHIJKLMNOPQRSTUVWXYZ"

LowerChars == "abcdefghijklmnopqrstuvwxyz"

\* printable ASCII, code points 32..95 in order
AsciiLow == " !\"#$%&'()*+,-./0123456789:;<=>?@ABCDEFGHIJKLMNOPQRSTUVWXYZ[\\]^_"

\* printable ASCII, code points 97..126 in order
AsciiHigh == "abcdefghijklmnopqrstuvwxyz{|}~"

\* the least element of a set of positions, 0 for the empty set
MinOrZero(P) == IF P = {} THEN 0 ELSE SetMin(P)

\* position of the first character c in string s, 0 when absent
IndexOf(c, s) == MinOrZero({i \in 1..Len(s) : ch(s, i) = c})

\* [A-Z]
IsUpper(c) == IndexOf(c, UpperChars) > 0

\* the accented letters the model knows, lower case then upper case
AccentChars == "éèêáàâíóúçñöüÉÈÁÀÇÑÖÜ"

\* the code point of each
AccentCodes ==
    <<233, 232, 234, 225, 224, 226, 237, 243, 250, 231, 241, 246, 252,
      201, 200, 193, 192, 199, 209, 214, 220>>

\* the base letter NFKD decomposes each into
AccentBase == "eeeaaaioucnouEEAACNOU"

\* str.lower() of each
AccentLower == "éèêáàâíóúçñöüéèáàçñöü"

\* the characters whose code point the model knows, by rising code point
\* within each of the three ranges
OrdChars == AsciiLow \o AsciiHigh \o AccentChars

\* the code point of the i-th of OrdChars, 255 for a character not in it
ord_at(i) ==
    IF i = 0 THEN 255
    ELSE IF i <= Len(AsciiLow) THEN 31 + i
    ELSE IF i <= Len(AsciiLow) + Len(AsciiHigh) THEN 96 + i - Len(AsciiLow)
    ELSE AccentCodes[i - Len(AsciiLow) - Len(AsciiHigh)]

\* ord(c): the code point Python compares strings by
Ord(c) ==
    IF c = "\n" THEN 10
    ELSE IF c = "\t" THEN 9
    ELSE IF c = "\r" THEN 13
    ELSE ord_at(IndexOf(c, OrdChars))

\* the first position where a and b differ, 0 when a = b
first_diff(a, b) ==
    MinOrZero({i \in 1..(Len(a) + 1) : ch(a, i) # ch(b, i)})

\* a < b decided at the first position k where they differ
less_at(a, b, k) ==
    IF k = 0 THEN FALSE
    ELSE IF k > Len(a) THEN TRUE
    ELSE IF k > Len(b) THEN FALSE
    ELSE Ord(ch(a, k)) < Ord(ch(b, k))

\* a < b for Python str: lexicographic by code point, a proper prefix
\* first
StrLess(a, b) == less_at(a, b, first_diff(a, b))

\* number of whitespace characters of s from position i on (\s*)
spaces_at(s, i) ==
    SetMin({j \in i..(Len(s) + 1) : ~IsSpace(ch(s, j))}) - i

\* str.lstrip()
lstrip(s) == slice(s, 1 + spaces_at(s, 1), Len(s))

\* str.rstrip()
rstrip(s) ==
    slice(s, 1, SetMax({j \in 0..Len(s) : j = 0 \/ ~IsSpace(ch(s, j))}))

\* str.strip()
strip(s) == rstrip(lstrip(s))

\* str.startswith(p)
startswith(s, p) == Len(s) >= Len(p) /\ SubSeq(s, 1, Len(p)) = p

\* str.endswith(p)
endswith(s, p) ==
    Len(s) >= Len(p) /\ SubSeq(s, Len(s) - Len(p) + 1, Len(s)) = p

\* str.find(sub, start) with 1-based positions: 0 when sub does not occur
find(s, sub, start) ==
    MinOrZero({i \in start..(Len(s) - Len(sub) + 1) :
                   SubSeq(s, i, i + Len(sub) - 1) = sub})

\* s cut at an occurrence of sep at position i: what precedes, what follows
before(s, i) == SubSeq(s, 1, i - 1)

after(s, sep, i) == SubSeq(s, i + Len(sep), Len(s))

RECURSIVE split(_, _)

\* str.split(sep) given the position i of the first sep, 0 when none
split_at(s, sep, i) ==
    IF i = 0 THEN <<s>>
    ELSE <<before(s, i)>> \o split(after(s, sep, i), sep)

\* str.split(sep): every occurrence of sep splits
split(s, sep) == split_at(s, sep, find(s, sep, 1))

\* str.split(sep, 1) given the position i of the first sep, 0 when none
split1_at(s, sep, i) ==
    IF i = 0 THEN <<s>> ELSE <<before(s, i), after(s, sep, i)>>

\* str.split(sep, 1): at most one split
split1(s, sep) == split1_at(s, sep, find(s, sep, 1))

\* str.split(sep, 2) given p, the result of the first split
split2_of(p, sep) ==
    IF Len(p) = 1 THEN p ELSE <<p[1]>> \o split1(p[2], sep)

\* str.split(sep, 2): at most two splits
split2(s, sep) == split2_of(split1(s, sep), sep)

\* the character of to at the position i that c has in a table, c itself
\* when i = 0
translate(c, i, to) == IF i = 0 THEN c ELSE ch(to, i)

\* str.lower() of one character
lowerChar(c) ==
    translate(c, IndexOf(c, UpperChars \o AccentChars),
              LowerChars \o AccentLower)

\* str.lower(), by halves
RECURSIVE lower(_)
lower(s) ==
    IF Len(s) = 0 THEN s
    ELSE IF Len(s) = 1 THEN lowerChar(s)
    ELSE lower(SubSeq(s, 1, Len(s) \div 2))
             \o lower(SubSeq(s, Len(s) \div 2 + 1, Len(s)))

RECURSIVE replace(_, _, _)

\* str.replace(old, new) given the position i of the first old, 0 when none
replace_at(s, old, new, i) ==
    IF i = 0 THEN s
    ELSE before(s, i) \o new \o replace(after(s, old, i), old, new)

\* str.replace(old, new): every occurrence, left to right
replace(s, old, new) == replace_at(s, old, new, find(s, old, 1))

(***************************************************************************)
(* Python values held in the frontmatter dict: str, bool, and None for a    *)
(* key dict.get() does not find.  v is the text str() / an f-string gives.  *)
(***************************************************************************)

Str(s) == [k |-> "str", v |-> s]

PyTrue == [k |-> "bool", v |-> "True"]

PyFalse == [k |-> "bool", v |-> "False"]

PyNone == [k |-> "none", v |-> "None"]

\* truth value of a Python value in `if x:` / `if e['image']`
truthy(val) ==
    \/ val.k = "str" /\ val.v # ""
    \/ val.k = "bool" /\ val.v = "True"

\* dict.get(key, default)
get(d, key, default) == IF key \in DOMAIN d THEN d[key] ELSE default

\* d[key] = val
put(d, key, val) ==
    [x \in DOMAIN d \cup {key} |-> IF x = key THEN val ELSE d[x]]

\* {}
EmptyDict == [x \in {} |-> PyNone]

(***************************************************************************)
(* parse_post: frontmatter                                                 *)
(***************************************************************************)

\* val coerced to bool when val.lower() is 'true' or 'false'
fm_coerce(val, low) ==
    IF low = "true" THEN PyTrue
    ELSE IF low = "false" THEN PyFalse
    ELSE Str(val)

\* val = value.strip() and what the dict gets for it
fm_stripped(val) == fm_coerce(val, lower(val))

\* the value of one `key: value` line
fm_value(value) == fm_stripped(strip(value))

\* one pass of the loop: kv is line.split(':', 1)
fm_line(frontmatter, line, kv) ==
    IF find(line, ":", 1) > 0
    THEN put(frontmatter, strip(kv[1]), fm_value(kv[2]))
    ELSE frontmatter

\* the loop over raw_fm.strip().split('\n'): a later key overwrites
RECURSIVE fm_lines(_, _)
fm_lines(lines, frontmatter) ==
    IF Len(lines) = 0 THEN frontmatter
    ELSE fm_lines(Tail(lines),
                  fm_line(frontmatter, Head(lines),
                          split1(Head(lines), ":")))

\* content.lstrip().split('---', 2)
fm_parts(content) == split2(lstrip(content), "---")

\* a variant of fm_found that does not ask where the first delimiter is
fm_found_anywhere(content, parts) == Len(parts) >= 3

\* whether the frontmatter block is recognised: the content starts with
\* '---' and parts, its split, has both delimiters
fm_found(content, parts) ==
    startswith(lstrip(content), "---") /\ Len(parts) >= 3

has_frontmatter(content) == fm_found(content, fm_parts(content))

\* frontmatter and body of a document, parts being fm_parts(content)
fm_and_body(content, parts) ==
    IF fm_found(content, parts)
    THEN [frontmatter |-> fm_lines(split(strip(parts[2]), "\n"), EmptyDict),
          body |-> parts[3]]
    ELSE [frontmatter |-> EmptyDict, body |-> content]

\* the frontmatter dict and the body of a document
parse_head(content) == fm_and_body(content, fm_parts(content))

\* the frontmatter dict of a document
parse_frontmatter(content) == parse_head(content).frontmatter

\* the body of a document
parse_body(content) == parse_head(content).body

(***************************************************************************)
(* parse_post: sort key                                                    *)
(***************************************************************************)

\* \d{n} at position i
RECURSIVE digits_at(_, _, _)
digits_at(s, i, n) ==
    \/ n = 0
    \/ i <= Len(s) /\ IsDigit(ch(s, i)) /\ digits_at(s, i + 1, n - 1)

\* \d{4}[/ ]\d{2}[/ ]\d{2} at position i (10 characters)
date_at(s, i) ==
    /\ i + 9 <= Len(s)
    /\ digits_at(s, i, 4)
    /\ ch(s, i + 4) \in {"/", " "}
    /\ digits_at(s, i + 5, 2)
    /\ ch(s, i + 7) \in {"/", " "}
    /\ digits_at(s, i + 8, 2)

\* \d{2}:\d{2}:\d{2} at position i (8 characters)
hms_at(s, i) ==
    /\ i + 7 <= Len(s)
    /\ digits_at(s, i, 2) /\ ch(s, i + 2) = ":"
    /\ digits_at(s, i + 3, 2) /\ ch(s, i + 5) = ":"
    /\ digits_at(s, i + 6, 2)

\* (\d{4}[/ ]\d{2}[/ ]\d{2}[ T]\d{2}:\d{2}:\d{2}) at position d: d, else 0
sort_ts_from(s, d) ==
    IF /\ date_at(s, d)
       /\ d + 10 <= Len(s) /\ ch(s, d + 10) \in {" ", "T"}
       /\ hms_at(s, d + 11)
    THEN d ELSE 0

\* \[\[\s*(\d{4}[/ ]\d{2}[/ ]\d{2}[ T]\d{2}:\d{2}:\d{2}) matched at i:
\* the position of group 1, 0 when there is no match at i
sort_ts_at(s, i) ==
    IF slice(s, i, i + 1) = "[["
    THEN sort_ts_from(s, i + 2 + spaces_at(s, i + 2))
    ELSE 0

\* the 19 characters of group 1 at position d, "" when d = 0
sort_ts_group(s, d) == IF d = 0 THEN "" ELSE SubSeq(s, d, d + 18)

\* re.search of the sort pattern: group 1 of the leftmost match, "" when
\* there is none
sort_ts_search(s) ==
    sort_ts_group(s, sort_ts_at(s, MinOrZero({i \in 1..Len(s) :
                                                  sort_ts_at(s, i) > 0})))

\* the sentinel of an entry without a timestamp
NoTimestampKey == "9999/99/99 99:99:99"

\* sort_key given group 1 of the match, "" when there was none
sort_key_from(g) ==
    IF g = "" THEN NoTimestampKey
    ELSE replace(replace(g, " ", "/"), "T", "/")

\* sort_key of a body
sort_key_of(body) == sort_key_from(sort_ts_search(body))

(***************************************************************************)
(* slugify                                                                 *)
(***************************************************************************)

\* a variant of ascii_fold that drops an accented letter whole
ascii_fold_dropped(c) == IF Ord(c) < 128 THEN c ELSE ""

\* unicodedata.normalize('NFKD', c).encode('ascii', 'ignore') of one
\* character: ASCII is kept, an accented letter loses its combining mark,
\* any other character is dropped
ascii_fold(c) ==
    IF Ord(c) < 128 THEN c
    ELSE translate("", IndexOf(c, AccentChars), AccentBase)

\* \w of an ASCII string
IsWord(c) ==
    IsDigit(c) \/ c = "_" \/ IndexOf(c, UpperChars \o LowerChars) > 0

\* what re.sub(r'[^\w\s-]', '', ...) leaves of one character
slug_char(c) == IF IsWord(c) \/ IsSpace(c) \/ c = "-" THEN c ELSE ""

\* re.sub(r'[^\w\s-]', '', value.lower()) after the ASCII fold, by halves
RECURSIVE slug_keep(_)
slug_keep(s) ==
    IF Len(s) = 0 THEN s
    ELSE IF Len(s) = 1 THEN slug_char(lowerChar(ascii_fold(s)))
    ELSE slug_keep(SubSeq(s, 1, Len(s) \div 2))
             \o slug_keep(SubSeq(s, Len(s) \div 2 + 1, Len(s)))

\* [-\s]
IsSep(c) == IsSpace(c) \/ c = "-"

\* re.sub(r'[-\s]+', '-', value) on positions lo..hi of s, by halves: a
\* run of separators leaves one hyphen, at its first character
RECURSIVE slug_runs(_, _, _)
slug_runs(s, lo, hi) ==
    IF lo > hi THEN ""
    ELSE IF lo = hi
         THEN IF ~IsSep(ch(s, lo)) THEN ch(s, lo)
              ELSE IF IsSep(ch(s, lo - 1)) THEN "" ELSE "-"
    ELSE slug_runs(s, lo, (lo + hi) \div 2)
             \o slug_runs(s, (lo + hi) \div 2 + 1, hi)

\* s between the least and the greatest position of P, "" when P is empty
span(s, P) == IF P = {} THEN "" ELSE SubSeq(s, SetMin(P), SetMax(P))

\* str.strip('-')
strip_hyphens(s) == span(s, {i \in 1..Len(s) : ch(s, i) # "-"})

\* the two substitutions after the first
slug_join(kept) == strip_hyphens(slug_runs(kept, 1, Len(kept)))

slugify(value) == slug_join(slug_keep(value))

(***************************************************************************)
(* parse_post: tag markup                                                  *)
(***************************************************************************)

\* [t.strip() for t in raw_tags.split(',')]
RECURSIVE strip_all(_)
strip_all(ts) ==
    IF Len(ts) = 0 THEN <<>>
    ELSE <<strip(Head(ts))>> \o strip_all(Tail(ts))

\* the <ul> of links that replaces one << ... >> markup
RECURSIVE tag_items(_)
tag_items(names) ==
    IF Len(names) = 0 THEN ""
    ELSE "<li><a href=\"tag_" \o slugify(Head(names)) \o ".html\">"
             \o Head(names) \o "</a></li>" \o tag_items(Tail(names))

tag_html(names) == "<ul>" \o tag_items(names) \o "</ul>"

\* found_tags entries of one markup
RECURSIVE tag_records(_)
tag_records(names) ==
    IF Len(names) = 0 THEN <<>>
    ELSE <<[name |-> Head(names), slug |-> slugify(Head(names))]>>
             \o tag_records(Tail(names))

RECURSIVE process_tags(_)

\* the markup at i is no match: the scan resumes one character on, r being
\* the result for the text from i + 1
tags_skipped(text, i, r) ==
    [text |-> slice(text, 1, i) \o r.text, tags |-> r.tags]

\* the markup at i is replaced: r is the result for the text after '>>'
tags_replaced(text, i, names, r) ==
    [text |-> slice(text, 1, i - 1) \o tag_html(names) \o r.text,
     tags |-> tag_records(names) \o r.tags]

\* the markup '<<' at i closed by '>>' at j, inner being what lies between,
\* stripped.  An inside that spans lines is no match ('.' matches no
\* newline).
tags_inner(text, i, j, inner) ==
    IF find(inner, "\n", 1) > 0
    THEN tags_skipped(text, i, process_tags(slice(text, i + 1, Len(text))))
    ELSE tags_replaced(text, i, strip_all(split(inner, ",")),
                       process_tags(slice(text, j + 2, Len(text))))

\* the first '<<' is at i, the first '>>' after it at j (0 when none)
tags_closed(text, i, j) ==
    IF j = 0 THEN [text |-> text, tags |-> <<>>]
    ELSE tags_inner(text, i, j, strip(slice(text, i + 2, j - 1)))

\* the first '<<' is at i (0 when none)
tags_opened(text, i) ==
    IF i = 0 THEN [text |-> text, tags |-> <<>>]
    ELSE tags_closed(text, i, find(text, ">>", i + 2))

\* process_tags(text, extract=False): re.sub(r'<<\s*(.*?)\s*>>', ...) with
\* the tags it appends to found_tags
process_tags(text) == tags_opened(text, find(text, "<<", 1))

(***************************************************************************)
(* parse_post: timestamp blocks                                            *)
(***************************************************************************)

\* \d{2}:\d{2} at position i (5 characters)
hm_at(s, i) ==
    /\ digits_at(s, i, 2) /\ ch(s, i + 2) = ":" /\ digits_at(s, i + 3, 2)

\* '\]\]' at position p: the last position matched, else 0
ts_close_at(s, p) == IF slice(s, p, p + 1) = "]]" THEN p + 1 ELSE 0

\* '\)?\s*\]\]' at position c
ts_paren_end(s, c) == ts_close_at(s, c + spaces_at(s, c))

\* '[A-Z]{3}\)?\s*\]\]' at position z
ts_zone_end(s, z) ==
    IF IsUpper(ch(s, z)) /\ IsUpper(ch(s, z + 1)) /\ IsUpper(ch(s, z + 2))
    THEN ts_paren_end(s, IF ch(s, z + 3) = ")" THEN z + 4 ELSE z + 3)
    ELSE 0

\* ' \(?[A-Z]{3}\)?\s*\]\]' at position i: the last position matched, else 0
ts_tail_end(s, i) ==
    IF ch(s, i) = " "
    THEN ts_zone_end(s, IF ch(s, i + 1) = "(" THEN i + 2 ELSE i + 1)
    ELSE 0

\* the first of three alternatives that matched (an end position, 0 for no
\* match), in the pattern's order
first_alt(e1, e2, e3) == IF e1 > 0 THEN e1 ELSE IF e2 > 0 THEN e2 ELSE e3

\* '(?:\d{2}:\d{2}:\d{2}|\d{2}:\d{2}|\d{4})' at t, then the tail
ts_time_end(s, t) ==
    first_alt(IF hms_at(s, t) THEN ts_tail_end(s, t + 8) ELSE 0,
              IF hm_at(s, t) THEN ts_tail_end(s, t + 5) ELSE 0,
              IF digits_at(s, t, 4) THEN ts_tail_end(s, t + 4) ELSE 0)

\* '\d{4}[/ ]\d{2}[/ ]\d{2}[ T]' at d, then the time and the tail
ts_stamp_end(s, d) ==
    IF date_at(s, d) /\ ch(s, d + 10) \in {" ", "T"}
    THEN ts_time_end(s, d + 11) ELSE 0

\* the bracketed token of timestamp_pattern at position q: the last position
\* matched, else 0
ts_token_end(s, q) ==
    IF slice(s, q, q + 1) = "[["
    THEN ts_stamp_end(s, q + 2 + spaces_at(s, q + 2)) ELSE 0

\* the last position of the line that position p is on (its newline, or
\* the end of the text), nl being the position of the next newline
line_end(s, nl) == IF nl = 0 THEN Len(s) ELSE nl

\* the first token that starts in p..e: where it starts, 0 when none
token_in(s, p, e) == MinOrZero({q \in p..e : ts_token_end(s, q) > 0})

\* '.*?' then the token, from position p of a line: where the token starts,
\* 0 when the line holds none from p on ('.' stops at the newline)
line_token(s, p) == token_in(s, p, line_end(s, find(s, "\n", p)))

\* where '(?:^|\n)' lets a match start at i, the line begins here
line_start(s, i) == IF ch(s, i) = "\n" THEN i + 1 ELSE i

\* the start of the leftmost match of timestamp_pattern at or after from,
\* 0 when there is none
ts_match_start(s, from) ==
    MinOrZero({m \in from..Len(s) :
                   /\ (m = 1 \/ ch(s, m) = "\n")
                   /\ line_token(s, line_start(s, m)) > 0})

RECURSIVE ts_split(_, _)

\* the split from position from on, the next match being m..e
ts_split_cut(s, from, m, e) ==
    <<slice(s, from, m - 1), slice(s, m, e)>> \o ts_split(s, e + 1)

\* the split from position from on, the next match starting at m (0: none)
ts_split_at(s, from, m) ==
    IF m = 0 THEN <<slice(s, from, Len(s))>>
    ELSE ts_split_cut(s, from, m,
                      ts_token_end(s, line_token(s, line_start(s, m))))

\* re.split(timestamp_pattern, body): text, header, text, header, ... text
ts_split(s, from) == ts_split_at(s, from, ts_match_start(s, from))

\* the value of a run of digits
RECURSIVE int_of(_)
int_of(s) ==
    IF Len(s) = 0 THEN 0
    ELSE 10 * int_of(SubSeq(s, 1, Len(s) - 1))
             + (IndexOf(ch(s, Len(s)), "0123456789") - 1)

\* days of month m of year y
days_in_month(y, m) ==
    IF m = 2
    THEN (IF (y % 4 = 0 /\ y % 100 # 0) \/ y % 400 = 0 THEN 29 ELSE 28)
    ELSE IF m \in {4, 6, 9, 11} THEN 30 ELSE 31

\* whether year y, month m, day dd is a date
valid_date(y, m, dd) ==
    y >= 1 /\ m \in 1..12 /\ dd >= 1 /\ dd <= days_in_month(y, m)

\* whether datetime.strptime(d, "%Y-%m-%d") accepts the 10 characters d
strptime_ok(d) ==
    valid_date(int_of(slice(d, 1, 4)), int_of(slice(d, 6, 7)),
               int_of(slice(d, 9, 10)))

\* the 10 characters of the date after '[[' at i, "" when i = 0
ts_date_at(s, i) ==
    IF i = 0 THEN ""
    ELSE slice(s, i + 2 + spaces_at(s, i + 2), i + 11 + spaces_at(s, i + 2))

\* re.search(r'\[\[\s*(\d{4}[/ ]\d{2}[/ ]\d{2})', ts): group 1, "" if none
ts_date_search(s) ==
    ts_date_at(s, MinOrZero({i \in 1..Len(s) :
                  /\ slice(s, i, i + 1) = "[["
                  /\ date_at(s, i + 2 + spaces_at(s, i + 2))}))

\* title<br/>timestamp, or the timestamp when the title is empty
ts_titled(title_part, ts_part) ==
    IF title_part # "" THEN title_part \o "<br/>" \o ts_part ELSE ts_part

\* the heading of ts_raw, whose first '[[' is at k
ts_heading_at(ts_raw, k) ==
    ts_titled(strip(slice(ts_raw, 1, k - 1)), slice(ts_raw, k, Len(ts_raw)))

\* ts_raw = parts[idx].strip() split into title and timestamp
ts_heading_of(ts_raw) == ts_heading_at(ts_raw, find(ts_raw, "[[", 1))

\* the heading text of one header
ts_heading(header) == ts_heading_of(strip(header))

\* whether strptime raises ValueError on group 1, d
ts_bad_date(d) == d # "" /\ ~strptime_ok(d)

\* whether the strptime call on a header's date raises ValueError
ts_raises(header) == ts_bad_date(ts_date_search(ts_heading(header)))

RECURSIVE ts_entries(_, _)

\* the i-th entry block followed by the later ones: c is process_tags of
\* the entry's content, r the result for the entries after it
ts_entry(header, i, c, r) ==
    [text |-> (IF i > 1 THEN "\n\n---\n\n" ELSE "")
                  \o "<h3 class=\"timestamp-header\">"
                  \o ts_heading(header) \o "</h3>"
                  \o "\n\n" \o lstrip(c.text) \o r.text,
     tags |-> c.tags \o r.tags,
     raises |-> ts_raises(header) \/ r.raises]

\* the loop over the (header, content) pairs of parts, from pair i on
ts_entries(parts, i) ==
    IF 2 * i + 1 > Len(parts)
    THEN [text |-> "", tags |-> <<>>, raises |-> FALSE]
    ELSE ts_entry(parts[2 * i], i, process_tags(parts[2 * i + 1]),
                  ts_entries(parts, i + 1))

\* the preamble pre followed by the entry blocks r
ts_joined(pre, r) ==
    [text |-> pre.text \o r.text, tags |-> pre.tags \o r.tags,
     raises |-> r.raises]

\* the new body, parts being re.split(timestamp_pattern, body)
restructure_parts(parts) ==
    IF Len(parts) = 1
    THEN ts_joined(process_tags(parts[1]),
                   [text |-> "", tags |-> <<>>, raises |-> FALSE])
    ELSE ts_joined(process_tags(parts[1]), ts_entries(parts, 1))

\* the body after the timestamp and tag passes, with found_tags
restructure(body) == restructure_parts(ts_split(body, 1))

(***************************************************************************)
(* parse_post: date and title inference                                    *)
(***************************************************************************)

\* re.match(r'(\d{4}-\d{2}-\d{2})', filename): group 1, "" when no match
filename_date(filename) ==
    IF /\ Len(filename) >= 10
       /\ digits_at(filename, 1, 4) /\ ch(filename, 5) = "-"
       /\ digits_at(filename, 6, 2) /\ ch(filename, 8) = "-"
       /\ digits_at(filename, 9, 2)
    THEN SubSeq(filename, 1, 10) ELSE ""

\* the date given to a post without one: the file's, else today's
default_date(from_name, today) ==
    IF from_name # "" THEN Str(from_name) ELSE Str(today)

\* a variant of infer_date in which the file name wins over the frontmatter
infer_date_named(frontmatter, filename, today) ==
    IF filename_date(filename) # ""
    THEN put(frontmatter, "date", Str(filename_date(filename)))
    ELSE IF "date" \notin DOMAIN frontmatter
    THEN put(frontmatter, "date", Str(today))
    ELSE frontmatter

\* frontmatter['date'] filled in when missing
infer_date(frontmatter, filename, today) ==
    IF "date" \notin DOMAIN frontmatter
    THEN put(frontmatter, "date",
             default_date(filename_date(filename), today))
    ELSE frontmatter

\* a variant of infer_title in which a missing title is left blank
infer_title_blank(frontmatter) ==
    IF "title" \notin DOMAIN frontmatter
    THEN put(frontmatter, "title", Str(""))
    ELSE frontmatter

\* frontmatter['title'] filled in when missing
infer_title(frontmatter) ==
    IF "title" \notin DOMAIN frontmatter
    THEN put(frontmatter, "title", frontmatter["date"])
    ELSE frontmatter

(***************************************************************************)
(* parse_post                                                              *)
(***************************************************************************)

\* what parse_post returns, head being the frontmatter and the body of the
\* file and r the body after the timestamp and tag passes
post_of(filename, content, today, head, r) ==
    [metadata |-> infer_title(infer_date(head.frontmatter, filename, today)),
     content |-> r.text,
     filename |-> filename,
     url |-> replace(filename, ".md", ".html"),
     tags |-> r.tags,
     sort_key |-> sort_key_of(r.text),
     raw_content |-> content,
     raises |-> r.raises]

\* the post read from one parsed head
post_from(filename, content, today, head) ==
    post_of(filename, content, today, head, restructure(head.body))

\* The post of one source file.  today is datetime.now() as '%Y-%m-%d'.
\* content stands for the HTML: the Markdown library renders the body the
\* timestamp and tag passes leave.  raises says that parse_post ends with
\* the ValueError of strptime instead of returning.
parse_post(filename, content, today) ==
    post_from(filename, content, today, parse_head(content))

(***************************************************************************)
(* write_if_changed                                                        *)
(***************************************************************************)

\* a variant of time_pattern that knows the UTC zone only
time_pattern_utc(s, i) ==
    /\ i + 36 <= Len(s)
    /\ SubSeq(s, i, i + 13) = "updated last: "
    /\ digits_at(s, i + 14, 4) /\ ch(s, i + 18) = "/"
    /\ digits_at(s, i + 19, 2) /\ ch(s, i + 21) = "/"
    /\ digits_at(s, i + 22, 2) /\ ch(s, i + 24) = " "
    /\ hms_at(s, i + 25) /\ ch(s, i + 33) = " "
    /\ SubSeq(s, i + 34, i + 36) = "UTC"

\* time_pattern matched at position i of s:
\* 'updated last: \d{4}/\d{2}/\d{2} \d{2}:\d{2}:\d{2} (EST|UTC)', 37 characters
time_pattern_at(s, i) ==
    /\ i + 36 <= Len(s)
    /\ SubSeq(s, i, i + 13) = "updated last: "
    /\ digits_at(s, i + 14, 4) /\ ch(s, i + 18) = "/"
    /\ digits_at(s, i + 19, 2) /\ ch(s, i + 21) = "/"
    /\ digits_at(s, i + 22, 2) /\ ch(s, i + 24) = " "
    /\ hms_at(s, i + 25) /\ ch(s, i + 33) = " "
    /\ SubSeq(s, i + 34, i + 36) \in {"EST", "UTC"}

RECURSIVE normalize(_)

\* s without the match at i and without the later ones; s itself when i = 0
normalize_at(s, i) ==
    IF i = 0 THEN s
    ELSE slice(s, 1, i - 1) \o normalize(slice(s, i + 37, Len(s)))

\* re.sub(time_pattern, '', s): every match removed, left to right
normalize(s) ==
    normalize_at(s, MinOrZero({i \in 1..Len(s) : time_pattern_at(s, i)}))

\* norm_new == norm_old
same_but_time(new, old) == normalize(new) = normalize(old)

\* a variant of should_write that does not look at force
should_write_unforced(dir, path, content, force) ==
    ~(/\ path \in DOMAIN dir
      /\ same_but_time(content, dir[path].content))

\* a variant of should_write that compares the texts as they are
should_write_exact(dir, path, content, force) ==
    ~(/\ ~force
      /\ path \in DOMAIN dir
      /\ content = dir[path].content)

\* should_write of write_if_changed; dir maps the names of the files of the
\* output directory to [content, mtime]
should_write(dir, path, content, force) ==
    ~(/\ ~force
      /\ path \in DOMAIN dir
      /\ same_but_time(content, dir[path].content))

\* open(path, 'w') then f.write(content) at time t
write_file(dir, path, content, t) ==
    [f \in DOMAIN dir \cup {path} |->
        IF f = path THEN [content |-> content, mtime |-> t] ELSE dir[f]]

\* the output directory after write_if_changed(path, content, force)
write_if_changed(dir, path, content, force, t) ==
    IF should_write(dir, path, content, force)
    THEN write_file(dir, path, content, t)
    ELSE dir
(***************************************************************************)
(* The templates.  They are not part of the builder's source: each is      *)
(* modelled as text that shows every variable render() is given, with the  *)
(* build time in the 'updated last:' field.                                *)
(***************************************************************************)

\* two decimal digits
fmt2(n) ==
    ch("0123456789", (n \div 10) + 1) \o ch("0123456789", (n % 10) + 1)

\* datetime.now(timezone.utc).strftime('%Y/%m/%d %H:%M:%S UTC') at tick t
strftime_utc(t) == "2025/01/01 00:00:" \o fmt2(t) \o " UTC"

footer(build_time) == "<footer>updated last: " \o build_time \o "</footer>"

RECURSIVE render_entries(_)
render_entries(entries) ==
    IF Len(entries) = 0 THEN ""
    ELSE LET e == Head(entries)
         IN  "<article"
                 \o (IF e.is_tech THEN " tech" ELSE "")
                 \o (IF truthy(e.is_future) THEN " future" ELSE "")
                 \o ">"
                 \o (IF truthy(e.image) THEN "<img src=" \o e.image.v \o ">"
                     ELSE "")
                 \o e.content \o "</article>"
                 \o render_entries(Tail(entries))

\* post.html
render_post(title, date, entries, has_future, build_time) ==
    "<h1>" \o title \o "</h1><h2>" \o date \o "</h2>"
        \o (IF has_future THEN "<p>future</p>" ELSE "")
        \o render_entries(entries) \o footer(build_time)

RECURSIVE render_index_posts(_)
render_index_posts(posts) ==
    IF Len(posts) = 0 THEN ""
    ELSE LET q == Head(posts)
         IN  "<li><a href=" \o q.url \o ">" \o q.title \o "</a> " \o q.date
                 \o (IF q.image # "" THEN "<img src=" \o q.image \o ">"
                     ELSE "")
                 \o (IF q.is_future THEN " future" ELSE "") \o "</li>"
                 \o render_index_posts(Tail(posts))

\* index.html
render_index(posts, build_time) ==
    "<ul>" \o render_index_posts(posts) \o "</ul>" \o footer(build_time)

RECURSIVE render_tag_links(_)
render_tag_links(tags) ==
    IF Len(tags) = 0 THEN ""
    ELSE "<li><a href=tag_" \o Head(tags).slug \o ".html>" \o Head(tags).name
             \o "</a></li>" \o render_tag_links(Tail(tags))

\* tags.html
render_tags(tags, build_time) ==
    "<ul>" \o render_tag_links(tags) \o "</ul>" \o footer(build_time)

RECURSIVE render_tag_posts(_)
render_tag_posts(posts) ==
    IF Len(posts) = 0 THEN ""
    ELSE "<li><a href=" \o Head(posts).url \o ">" \o Head(posts).title.v
             \o "</a> " \o Head(posts).date \o "</li>"
             \o render_tag_posts(Tail(posts))

\* tag_page.html
render_tag_page(tag_name, posts, build_time) ==
    "<h1>" \o tag_name \o "</h1><ul>" \o render_tag_posts(posts) \o "</ul>"
        \o footer(build_time)


(***************************************************************************)
(* The finite universe of source files.  parse_post is a function of the   *)
(* file name, the document and the date alone, so its value on the         *)
(* universe is computed once and looked up by the runs.                    *)
(***************************************************************************)

\* the days the clock can show
Calendar == <<"2025-03-04", "2025-03-05">>

Days == {Calendar[i] : i \in 1..Len(Calendar)}

\* source files of the evolving site
MainFiles == {"2025-01-01-a.md", "2025-01-01-b-tech.md", "note.md"}

DocPlain == "walk\n* a\n"

DocTagged ==
    "---\ntitle: Tea\nfuture: true\n---\n[[2025/01/02 10:00:00 EST]]\n<<Tea>>\n"

DocDated == "---\ndate: 2025-01-02\nimage: a.png\n---\n<<tea, Sun>>\n"

\* its timestamp is no date: strptime raises
DocBad == "[[2025/02/30 10:00:00 EST]]\nx\n"

MainDocs == {DocPlain, DocTagged, DocDated, DocBad}

\* the files of one day, for the order of the entries of a day group: with
\* and without a timestamp, two with the same timestamp, tech variants
SortFiles ==
    {"2025-01-01-a.md", "2025-01-01-b.md", "2025-01-01-c-tech.md",
     "2025-01-01-d.md", "2025-01-01-e-tech.md"}

\* what each of them holds
SortDoc(f) ==
    IF f = "2025-01-01-a.md" THEN "[[2025/01/01 10:00:00 EST]]\nx\n"
    ELSE IF f = "2025-01-01-b.md" THEN "y\n"
    ELSE IF f = "2025-01-01-c-tech.md"
         THEN "[[2025/01/01 09:00:00 EST]]\n<<Tea>>\nz\n"
    ELSE IF f = "2025-01-01-d.md" THEN "[[2025/01/01 10:00:00 EST]]\nw\n"
    ELSE "v\n"

\* every (file name, document) a content directory can hold
FileUniverse ==
    (MainFiles \X MainDocs) \cup {<<f, SortDoc(f)>> : f \in SortFiles}

\* parse_post on the universe
ParsedPosts ==
    {[filename |-> fd[1], doc |-> fd[2], today |-> t,
      post |-> parse_post(fd[1], fd[2], t)] : fd \in FileUniverse, t \in Days}

\* parse_post(filepath, lookups) as build() calls it
parsed_post(filename, doc, t) ==
    (CHOOSE r \in ParsedPosts :
        r.filename = filename /\ r.doc = doc /\ r.today = t).post

(***************************************************************************)
(* build: aggregation                                                      *)
(***************************************************************************)

\* a variant of max that gives the later argument
max_later(a, b) == b

\* max(a, b)
max(a, b) == IF a >= b THEN a ELSE b

\* the entry build() appends to its day group for one file
entry_of(file, post) ==
    [content |-> post.content,
     image |-> get(post.metadata, "image", PyNone),
     sort_key |-> post.sort_key,
     is_tech |-> endswith(file, "-tech.md"),
     is_future |-> get(post.metadata, "future", PyFalse),
     filename |-> file,
     raw_content |-> post.raw_content]

\* position of the tag with this slug in all_tags, 0 when absent
RECURSIVE tag_index(_, _, _)
tag_index(all_tags, slug, i) ==
    IF i > Len(all_tags) THEN 0
    ELSE IF all_tags[i].slug = slug THEN i
    ELSE tag_index(all_tags, slug, i + 1)

\* any(p['url'] == daily_url for p in posts)
has_url(posts, daily_url) ==
    \E i \in 1..Len(posts) : posts[i].url = daily_url

\* the item a tag keeps for a post
tag_post(post, date) ==
    [title |-> get(post.metadata, "title", PyNone), date |-> date,
     url |-> date \o ".html"]

\* a variant of with_tag in which a later name replaces the first
with_tag_renamed(all_tags, tag) ==
    IF tag_index(all_tags, tag.slug, 1) > 0
    THEN [all_tags EXCEPT ![tag_index(all_tags, tag.slug, 1)].name = tag.name]
    ELSE Append(all_tags,
                [name |-> tag.name, slug |-> tag.slug, posts |-> <<>>])

\* all_tags with an entry for the tag: all_tags keeps the order in which its
\* slugs were first seen, as the dict does
with_tag(all_tags, tag) ==
    IF tag_index(all_tags, tag.slug, 1) > 0 THEN all_tags
    ELSE Append(all_tags,
                [name |-> tag.name, slug |-> tag.slug, posts |-> <<>>])

\* a variant of add_tag_post that appends whatever the tag lists already
add_tag_post_again(all_tags, k, p) ==
    [all_tags EXCEPT ![k].posts = Append(@, p)]

\* the item p appended to the posts of the k-th tag unless its url is there
add_tag_post(all_tags, k, p) ==
    IF has_url(all_tags[k].posts, p.url) THEN all_tags
    ELSE [all_tags EXCEPT ![k].posts = Append(@, p)]

\* the same for the tag of that slug
add_tag_item(all_tags, tag, p) ==
    add_tag_post(all_tags, tag_index(all_tags, tag.slug, 1), p)

\* one pass of the loop over post['tags']
add_tag(all_tags, tag, post, date) ==
    add_tag_item(with_tag(all_tags, tag), tag, tag_post(post, date))

RECURSIVE add_tags(_, _, _, _)
add_tags(all_tags, tags, post, date) ==
    IF Len(tags) = 0 THEN all_tags
    ELSE add_tags(add_tag(all_tags, Head(tags), post, date), Tail(tags),
                  post, date)

\* the day group created on the first sight of a date
new_group(date) ==
    [title |-> date, date |-> date, entries |-> <<>>,
     url |-> date \o ".html", max_mtime |-> 0, has_future |-> FALSE]

\* posts_by_date[date], created when missing
group_of(posts_by_date, date) ==
    IF date \in DOMAIN posts_by_date THEN posts_by_date[date]
    ELSE new_group(date)

\* a variant of grown in which the last entry alone decides has_future
grown_last(group, file_mtime, e) ==
    [group EXCEPT !.max_mtime = max(@, file_mtime),
                  !.has_future = truthy(e.is_future),
                  !.entries = Append(@, e)]

\* the group after the entry e of a file is appended
grown(group, file_mtime, e) ==
    [group EXCEPT !.max_mtime = max(@, file_mtime),
                  !.has_future = @ \/ truthy(e.is_future),
                  !.entries = Append(@, e)]

\* posts_by_date[date] = group
set_group(posts_by_date, date, group) ==
    [d \in DOMAIN posts_by_date \cup {date} |->
        IF d = date THEN group ELSE posts_by_date[d]]

\* the day groups after one file is bucketed
add_entry(posts_by_date, file, file_mtime, post, date) ==
    set_group(posts_by_date, date,
              grown(group_of(posts_by_date, date), file_mtime,
                    entry_of(file, post)))

\* posts_by_date and all_tags after one pass of the loop over the files
bucketed(acc, file, post, date) ==
    [posts_by_date |->
         add_entry(acc.posts_by_date, file.name, file.mtime, post, date),
     all_tags |-> add_tags(acc.all_tags, post.tags, post, date),
     raises |-> FALSE]

RECURSIVE aggregate(_, _, _, _)

\* the loop from file i on, post being parse_post of file i
aggregate_post(dir, i, today, acc, post) ==
    IF post.raises THEN [acc EXCEPT !.raises = TRUE]
    ELSE aggregate(dir, i + 1, today,
                   bucketed(acc, dir[i], post, post.metadata["date"].v))

\* the loop over the listing of the content directory, from file i on; a
\* directory is the sequence of its [name, doc, mtime] in listing order
aggregate(dir, i, today, acc) ==
    IF i > Len(dir) \/ acc.raises THEN acc
    ELSE IF ~endswith(dir[i].name, ".md")
         THEN aggregate(dir, i + 1, today, acc)
    ELSE aggregate_post(dir, i, today, acc,
                        parsed_post(dir[i].name, dir[i].doc, today))

\* posts_by_date = {}, all_tags = {}
EmptyAggregate ==
    [posts_by_date |-> [d \in {} |-> new_group("")], all_tags |-> <<>>,
     raises |-> FALSE]

(***************************************************************************)
(* build: orderings                                                        *)
(***************************************************************************)

\* a variant of the sort key without is_tech
entry_less_untech(a, b) ==
    IF a.sort_key # b.sort_key THEN StrLess(a.sort_key, b.sort_key)
    ELSE StrLess(a.filename, b.filename)

\* key(a) < key(b) for key = (is_tech, sort_key, filename)
entry_less(a, b) ==
    IF a.is_tech # b.is_tech THEN ~a.is_tech
    ELSE IF a.sort_key # b.sort_key THEN StrLess(a.sort_key, b.sort_key)
    ELSE StrLess(a.filename, b.filename)

\* group['entries'].sort(key=lambda x: (is_tech, sort_key, filename)):
\* a stable sort; the element at i goes to place rank(i)
sort_entries(entries) ==
    LET n == Len(entries)
        rank(i) == 1 + Cardinality({j \in 1..n :
                       \/ entry_less(entries[j], entries[i])
                       \/ ~entry_less(entries[i], entries[j]) /\ j < i})
    IN  [k \in 1..n |-> entries[CHOOSE i \in 1..n : rank(i) = k]]

\* sorted(posts_by_date.keys(), reverse=True)
RECURSIVE sorted_desc(_)
sorted_desc(S) ==
    IF S = {} THEN <<>>
    ELSE LET m == CHOOSE x \in S : \A y \in S : ~StrLess(x, y)
         IN  <<m>> \o sorted_desc(S \ {m})

\* key(a) < key(b) for key = name.lower()
tag_name_less(a, b) == StrLess(lower(a.name), lower(b.name))

\* sorted(all_tags.values(), key=lambda x: x['name'].lower()): stable
sort_tags(all_tags) ==
    LET n == Len(all_tags)
        rank(i) == 1 + Cardinality({j \in 1..n :
                       \/ tag_name_less(all_tags[j], all_tags[i])
                       \/ ~tag_name_less(all_tags[i], all_tags[j]) /\ j < i})
    IN  [k \in 1..n |-> all_tags[CHOOSE i \in 1..n : rank(i) = k]]

\* sorted(data['posts'], key=lambda x: x['date'], reverse=True): stable,
\* the greater date first
sort_tag_posts(posts) ==
    LET n == Len(posts)
        rank(i) == 1 + Cardinality({j \in 1..n :
                       \/ StrLess(posts[i].date, posts[j].date)
                       \/ posts[i].date = posts[j].date /\ j < i})
    IN  [k \in 1..n |-> posts[CHOOSE i \in 1..n : rank(i) = k]]

\* next((e['image'] for e in group['entries'] if e['image']), '')
RECURSIVE first_image(_)
first_image(entries) ==
    IF Len(entries) = 0 THEN ""
    ELSE IF truthy(Head(entries).image) THEN Head(entries).image.v
    ELSE first_image(Tail(entries))

\* the item of index_posts for one day group
index_post(group) ==
    [title |-> group.title, date |-> group.date, url |-> group.url,
     image |-> first_image(sort_entries(group.entries)),
     is_future |-> group.has_future]

(***************************************************************************)
(* build: change detection                                                 *)
(***************************************************************************)

\* the maximum of a set of mtimes, 0 for the empty set
max_of(S) == IF S = {} THEN 0 ELSE SetMax(S)

\* a variant of global_mtime that leaves the templates out
global_mtime_script(script_mtime, templates, lookup_file) ==
    max_of({script_mtime}
               \cup (IF lookup_file.exists THEN {lookup_file.mtime} ELSE {}))

\* global_mtime: the builder script, every template, the lookup file when
\* it exists
global_mtime_of(script_mtime, templates, lookup_file) ==
    max_of({script_mtime} \cup {templates[t] : t \in DOMAIN templates}
               \cup (IF lookup_file.exists THEN {lookup_file.mtime} ELSE {}))

\* a variant of needs_rebuild that skips a page as old as a dependency
needs_rebuild_lax(dir, output_path, force, global_mtime, group_max_mtime) ==
    ~(/\ ~force
      /\ output_path \in DOMAIN dir
      /\ dir[output_path].mtime >= global_mtime
      /\ dir[output_path].mtime >= group_max_mtime)

\* needs_rebuild of one day page
needs_rebuild(dir, output_path, force, global_mtime, group_max_mtime) ==
    ~(/\ ~force
      /\ output_path \in DOMAIN dir
      /\ dir[output_path].mtime > global_mtime
      /\ dir[output_path].mtime > group_max_mtime)

\* a variant of is_stale that does not look at the extension
is_stale_any(f, generated_files) == f \notin generated_files

\* whether cleanup removes the file named f
is_stale(f, generated_files) ==
    endswith(f, ".html") /\ f \notin generated_files

\* the output directory after the cleanup loop
cleanup(dir, generated_files) ==
    [f \in {g \in DOMAIN dir : ~is_stale(g, generated_files)} |-> dir[f]]

\* a variant of copies_asset that copies over an asset of the same mtime
copies_asset_same(src, dst, a) ==
    a \notin DOMAIN dst \/ src[a].mtime >= dst[a].mtime

\* whether the loop over the static tree copies an asset: src and dst map
\* asset paths to [ver, mtime]
copies_asset(src, dst, a) ==
    a \notin DOMAIN dst \/ src[a].mtime > dst[a].mtime

\* the mirrored static tree after the loop; copy2 keeps the source's mtime
sync_static(src, dst) ==
    [a \in DOMAIN src \cup DOMAIN dst |->
        IF a \in DOMAIN src /\ copies_asset(src, dst, a) THEN src[a]
        ELSE dst[a]]

(***************************************************************************)
(* The state: the file system the builder reads and writes, the clock, and *)
(* the position and locals of a build() run.                               *)
(***************************************************************************)

VARIABLES
    now,            \* the clock, in ticks of the mtime resolution
    date_now,       \* datetime.now() as '%Y-%m-%d'
    CONTENT_DIR,    \* its files, [name, doc, mtime], in os.listdir order
    TEMPLATE_DIR,   \* its files: template name -> mtime
    script_path,    \* mtime of the builder script (__file__)
    LOOKUP_FILE,    \* [exists, mtime]
    STATIC_DIR,     \* its files: asset path -> [ver, mtime]
    path_exists,    \* os.path.exists of CONTENT_DIR and of STATIC_DIR
    OUTPUT_DIR,     \* its files: name -> [content, mtime]
    output_static,  \* the files of OUTPUT_DIR/static: path -> [ver, mtime]
    pc,             \* where the run is
    loc,            \* the locals of build()
    arg,            \* the arguments of a single call of a function
    ret,            \* what that call returned
    h,              \* history: what the run found and did
    nedits,         \* number of changes made to the sources so far
    nruns,          \* number of runs started so far
    nkills          \* number of runs killed so far

vars ==
    <<now, date_now, CONTENT_DIR, TEMPLATE_DIR, script_path, LOOKUP_FILE,
      STATIC_DIR, path_exists, OUTPUT_DIR, output_static, pc, loc, arg, ret, h, nedits,
      nruns, nkills>>

\* what a run does not write
sources ==
    <<now, date_now, CONTENT_DIR, TEMPLATE_DIR, script_path, LOOKUP_FILE,
      STATIC_DIR, path_exists>>

(***************************************************************************)
(* Bounds and the finite universe of inputs                                *)
(***************************************************************************)

\* the clock stops here
MaxClock == 2

\* changes to the sources over a behaviour
MaxEdits == 1

\* runs of build() over a behaviour
MaxRuns == 2

\* runs killed over a behaviour
MaxKills == 1

TemplateNames == {"post.html", "index.html", "tags.html", "tag_page.html"}

\* the dependencies of every page
GlobalDeps == TemplateNames \cup {"lesson_lookups.txt", "build.py"}

AssetNames == {"style.css"}

\* what the output directory holds before the first run
JunkNames == {"old.html", "CNAME"}

Quiet == {"idle", "done", "killed", "crashed"}

Running == {"days", "index", "tags", "tagpages", "cleanup"}

NoBuild ==
    [force |-> FALSE, build_time |-> "", global_mtime |-> 0,
     posts_by_date |-> EmptyAggregate.posts_by_date, all_tags |-> <<>>,
     dates |-> <<>>, index_posts |-> <<>>, tag_i |-> 1,
     generated_files |-> {}]

NoCall == [op |-> "none"]

\* history at the start of a behaviour: no run has ended
NoHistory ==
    [last |-> "none", changed |-> FALSE, touched |-> {},
     day_changed |-> FALSE,
     p_last |-> "none", p_changed |-> FALSE, p_touched |-> {},
     p_day_changed |-> FALSE,
     out0 |-> <<>>, static0 |-> <<>>, written |-> {}, removed |-> {}]

EmptyDir == [f \in {} |-> [content |-> "", mtime |-> 0]]

NoAssets == [a \in {} |-> [ver |-> 0, mtime |-> 0]]

\* the names in a content directory
names_of(dir) == {dir[i].name : i \in 1..Len(dir)}

\* dir without the file named f
remove_name(dir, f) == SelectSeq(dir, LAMBDA e : e.name # f)

(***************************************************************************)
(* The environment: edits to the sources between runs, and time passing    *)
(***************************************************************************)

\* what every change records: which dependencies were touched (deps),
\* whether the change is midnight passing (day) or a change to a source
Edited(deps, day) ==
    /\ pc \in Quiet
    /\ nruns > 0
    /\ nruns < MaxRuns
    /\ nedits < MaxEdits
    /\ nedits' = nedits + 1
    /\ pc' = "idle"
    /\ loc' = NoBuild
    /\ h' = [h EXCEPT !.changed = @ \/ ~day, !.touched = @ \cup deps,
                      !.day_changed = @ \/ day]
    /\ UNCHANGED <<OUTPUT_DIR, output_static, arg, ret, nruns, nkills>>

\* a new source file appears, last in the listing, in a content directory
\* that is made when absent
CreateFile(f, d) ==
    /\ f \notin names_of(CONTENT_DIR)
    /\ CONTENT_DIR' = Append(CONTENT_DIR, [name |-> f, doc |-> d, mtime |-> now])
    /\ path_exists' = [path_exists EXCEPT !["CONTENT_DIR"] = TRUE]
    /\ Edited({}, FALSE)
    /\ UNCHANGED <<now, date_now, TEMPLATE_DIR, script_path, LOOKUP_FILE,
                   STATIC_DIR>>

\* a source file is rewritten
EditFile(i, d) ==
    /\ CONTENT_DIR[i].doc # d
    /\ CONTENT_DIR' = [CONTENT_DIR EXCEPT ![i] = [@ EXCEPT !.doc = d,
                                                         !.mtime = now]]
    /\ Edited({}, FALSE)
    /\ UNCHANGED <<now, date_now, TEMPLATE_DIR, script_path, LOOKUP_FILE,
                   STATIC_DIR, path_exists>>

\* a source file is deleted
DeleteFile(i) ==
    /\ CONTENT_DIR' = remove_name(CONTENT_DIR, CONTENT_DIR[i].name)
    /\ Edited({}, FALSE)
    /\ UNCHANGED <<now, date_now, TEMPLATE_DIR, script_path, LOOKUP_FILE,
                   STATIC_DIR, path_exists>>

\* a template, the lookup file or the builder script is touched
TouchDep(g) ==
    /\ TEMPLATE_DIR' = IF g \in TemplateNames
                       THEN [TEMPLATE_DIR EXCEPT ![g] = now]
                       ELSE TEMPLATE_DIR
    /\ LOOKUP_FILE' = IF g = "lesson_lookups.txt"
                      THEN [exists |-> TRUE, mtime |-> now] ELSE LOOKUP_FILE
    /\ script_path' = IF g = "build.py" THEN now ELSE script_path
    /\ Edited({g}, FALSE)
    /\ UNCHANGED <<now, date_now, CONTENT_DIR, STATIC_DIR, path_exists>>

\* a static asset is written, or put back with the mtime t it had
PutAsset(a, t) ==
    /\ STATIC_DIR' = [s \in DOMAIN STATIC_DIR \cup {a} |->
                         IF s = a THEN [ver |-> nedits + 1, mtime |-> t]
                         ELSE STATIC_DIR[s]]
    /\ path_exists' = [path_exists EXCEPT !["STATIC_DIR"] = TRUE]
    /\ Edited({}, FALSE)
    /\ UNCHANGED <<now, date_now, CONTENT_DIR, TEMPLATE_DIR, script_path,
                   LOOKUP_FILE>>

\* a static asset is deleted from the source tree
DeleteAsset(a) ==
    /\ a \in DOMAIN STATIC_DIR
    /\ STATIC_DIR' = [s \in DOMAIN STATIC_DIR \ {a} |-> STATIC_DIR[s]]
    /\ Edited({}, FALSE)
    /\ UNCHANGED <<now, date_now, CONTENT_DIR, TEMPLATE_DIR, script_path,
                   LOOKUP_FILE, path_exists>>

\* the content directory or the static directory is removed with its files
RemoveDir(p) ==
    /\ path_exists[p]
    /\ path_exists' = [path_exists EXCEPT ![p] = FALSE]
    /\ CONTENT_DIR' = IF p = "CONTENT_DIR" THEN <<>> ELSE CONTENT_DIR
    /\ STATIC_DIR' = IF p = "STATIC_DIR" THEN NoAssets ELSE STATIC_DIR
    /\ Edited({}, FALSE)
    /\ UNCHANGED <<now, date_now, TEMPLATE_DIR, script_path, LOOKUP_FILE>>

\* midnight passes
NewDay ==
    /\ \E i \in 1..(Len(Calendar) - 1) :
          date_now = Calendar[i] /\ date_now' = Calendar[i + 1]
    /\ Edited({}, TRUE)
    /\ UNCHANGED <<now, CONTENT_DIR, TEMPLATE_DIR, script_path, LOOKUP_FILE,
                   STATIC_DIR, path_exists>>

\* the clock advances by one tick of the mtime resolution
Tick ==
    /\ pc \in Quiet
    /\ nruns > 0
    /\ nruns < MaxRuns
    /\ now < MaxClock
    /\ now' = now + 1
    /\ UNCHANGED <<date_now, CONTENT_DIR, TEMPLATE_DIR, script_path,
                   LOOKUP_FILE, STATIC_DIR, path_exists, OUTPUT_DIR,
                   output_static, pc,
                   loc, arg, ret, h, nedits, nruns, nkills>>

(***************************************************************************)
(* build(force), step by step: one step per output file, so that a run can *)
(* be killed between any two of them, or while one is being written        *)
(***************************************************************************)

\* the day group the loop over sorted_dates is at
day_group(run) == run.posts_by_date[Head(run.dates)]

\* the day page of a group as build() renders it
group_html(group, build_time) ==
    render_post(group.title, group.date, sort_entries(group.entries),
                group.has_future, build_time)

\* the day page of date d
day_html(run, d) == group_html(run.posts_by_date[d], run.build_time)

\* index.html
index_html(run) == render_index(run.index_posts, run.build_time)

\* tags.html
tags_html(run) == render_tags(sort_tags(run.all_tags), run.build_time)

\* the tag page of the i-th tag of all_tags
tag_page_html(run, i) ==
    render_tag_page(run.all_tags[i].name,
                    sort_tag_posts(run.all_tags[i].posts), run.build_time)

\* a variant of tag_filename that uses the name of the tag for its slug
tag_filename_named(run, i) == "tag_" \o run.all_tags[i].name \o ".html"

tag_filename(run, i) == "tag_" \o run.all_tags[i].slug \o ".html"

\* the file the step at `at` is about
step_path(run, at) ==
    IF at = "days" THEN day_group(run).url
    ELSE IF at = "index" THEN "index.html"
    ELSE IF at = "tags" THEN "tags.html"
    ELSE tag_filename(run, run.tag_i)

\* the page the step at `at` renders
step_html(run, at) ==
    IF at = "days" THEN group_html(day_group(run), run.build_time)
    ELSE IF at = "index" THEN index_html(run)
    ELSE IF at = "tags" THEN tags_html(run)
    ELSE tag_page_html(run, run.tag_i)

\* whether the step at `at` opens path for writing: needs_rebuild for a day
\* page, should_write of write_if_changed for the others
step_writes(run, dir, at, path, html) ==
    IF at = "days"
    THEN needs_rebuild(dir, path, run.force, run.global_mtime,
                       day_group(run).max_mtime)
    ELSE should_write(dir, path, html, run.force)

\* the history at the start of a run that finds the output directory dir
\* and under it the static tree static
started(hist, dir, static) ==
    [hist EXCEPT !.p_last = hist.last, !.p_changed = hist.changed,
                 !.p_touched = hist.touched,
                 !.p_day_changed = hist.day_changed,
                 !.changed = FALSE, !.touched = {}, !.day_changed = FALSE,
                 !.out0 = dir, !.static0 = static, !.written = {},
                 !.removed = {}]

\* parse_post raised: the run ends before anything is written
Raised ==
    /\ pc' = "crashed"
    /\ loc' = NoBuild
    /\ h' = [started(h, OUTPUT_DIR, output_static) EXCEPT
                 !.last = "crashed"]

\* the locals when the loop over sorted_dates begins
Aggregated(force, agg) ==
    /\ pc' = IF DOMAIN agg.posts_by_date = {} THEN "index" ELSE "days"
    /\ loc' = [force |-> force,
               build_time |-> strftime_utc(now),
               global_mtime |->
                   global_mtime_of(script_path, TEMPLATE_DIR, LOOKUP_FILE),
               posts_by_date |-> agg.posts_by_date,
               all_tags |-> agg.all_tags,
               dates |-> sorted_desc(DOMAIN agg.posts_by_date),
               index_posts |-> <<>>,
               tag_i |-> 1,
               generated_files |-> {}]
    /\ h' = started(h, OUTPUT_DIR, output_static)

\* a variant of collect that lists the content directory without asking
\* whether it exists
collect_unguarded(dirs, dir, today) ==
    IF dirs["CONTENT_DIR"] THEN aggregate(dir, 1, today, EmptyAggregate)
    ELSE [EmptyAggregate EXCEPT !.raises = TRUE]

\* the loop over the files of the content directory, entered when the
\* directory exists
collect(dirs, dir, today) ==
    IF dirs["CONTENT_DIR"] THEN aggregate(dir, 1, today, EmptyAggregate)
    ELSE EmptyAggregate

\* build() from its first line to the end of the loop over the content
\* directory: the static tree is mirrored, the dependencies are dated, every
\* post is parsed and bucketed.  An exception of parse_post ends the run.
BuildStart(force) ==
    /\ pc \in Quiet
    /\ nruns < MaxRuns
    /\ nruns' = nruns + 1
    /\ output_static' = IF path_exists["STATIC_DIR"]
                         THEN sync_static(STATIC_DIR, output_static)
                         ELSE output_static
    /\ IF collect(path_exists, CONTENT_DIR, date_now).raises
       THEN Raised
       ELSE Aggregated(force, collect(path_exists, CONTENT_DIR, date_now))
    /\ UNCHANGED <<sources, OUTPUT_DIR, arg, ret, nedits, nkills>>

\* the output directory and the history after a step about path: html is
\* written when the step writes
Stepped(path, html, writes) ==
    /\ OUTPUT_DIR' = IF writes THEN write_file(OUTPUT_DIR, path, html, now)
                     ELSE OUTPUT_DIR
    /\ h' = IF writes THEN [h EXCEPT !.written = @ \cup {path}] ELSE h

\* the step at pc
Step ==
    Stepped(step_path(loc, pc), step_html(loc, pc),
            step_writes(loc, OUTPUT_DIR, pc, step_path(loc, pc),
                        step_html(loc, pc)))

\* one pass of the loop over sorted_dates: the group is sorted, the index
\* item appended, the page rendered and written when it needs a rebuild
BuildDay ==
    /\ pc = "days"
    /\ Step
    /\ loc' = [loc EXCEPT
                  !.posts_by_date[Head(loc.dates)].entries = sort_entries(@),
                  !.index_posts = Append(@, index_post(day_group(loc))),
                  !.generated_files = @ \cup {day_group(loc).url},
                  !.dates = Tail(@)]
    /\ pc' = IF Len(loc.dates) = 1 THEN "index" ELSE "days"
    /\ UNCHANGED <<sources, output_static, arg, ret, nedits, nruns, nkills>>

\* index.html
BuildIndex ==
    /\ pc = "index"
    /\ Step
    /\ loc' = [loc EXCEPT !.generated_files = @ \cup {"index.html"}]
    /\ pc' = "tags"
    /\ UNCHANGED <<sources, output_static, arg, ret, nedits, nruns, nkills>>

\* tags.html
BuildTags ==
    /\ pc = "tags"
    /\ Step
    /\ loc' = [loc EXCEPT !.generated_files = @ \cup {"tags.html"}]
    /\ pc' = IF Len(loc.all_tags) = 0 THEN "cleanup" ELSE "tagpages"
    /\ UNCHANGED <<sources, output_static, arg, ret, nedits, nruns, nkills>>

\* one pass of the loop over all_tags.items()
BuildTagPage ==
    /\ pc = "tagpages"
    /\ Step
    /\ loc' = [loc EXCEPT
                  !.generated_files = @ \cup {tag_filename(loc, loc.tag_i)},
                  !.tag_i = @ + 1]
    /\ pc' = IF loc.tag_i = Len(loc.all_tags) THEN "cleanup" ELSE "tagpages"
    /\ UNCHANGED <<sources, output_static, arg, ret, nedits, nruns, nkills>>

\* the loop that removes the stale files; the run is complete
Cleanup ==
    /\ pc = "cleanup"
    /\ OUTPUT_DIR' = cleanup(OUTPUT_DIR, loc.generated_files)
    /\ h' = [h EXCEPT !.removed = DOMAIN OUTPUT_DIR \ DOMAIN OUTPUT_DIR',
                      !.last = "done"]
    /\ pc' = "done"
    /\ UNCHANGED <<sources, output_static, loc, arg, ret, nedits, nruns,
                   nkills>>

\* what every kill does
Killed ==
    /\ pc \in Running
    /\ nkills < MaxKills
    /\ nruns < MaxRuns
    /\ nkills' = nkills + 1
    /\ pc' = "killed"
    /\ loc' = NoBuild
    /\ h' = [h EXCEPT !.last = "killed"]
    /\ UNCHANGED <<sources, output_static, arg, ret, nedits, nruns>>

\* the run is killed between two steps
Kill ==
    /\ Killed
    /\ UNCHANGED OUTPUT_DIR

\* the run is killed after open(path, 'w') has truncated the file and before
\* the page is written to it
KillInWrite ==
    /\ pc # "cleanup"
    /\ Killed
    /\ step_writes(loc, OUTPUT_DIR, pc, step_path(loc, pc),
                   step_html(loc, pc))
    /\ OUTPUT_DIR' = write_file(OUTPUT_DIR, step_path(loc, pc), "", now)

\* the listings of the content directory the first run may find
InitialListings ==
    {<<[name |-> "2025-01-01-a.md", doc |-> DocTagged, mtime |-> 0]>>,
     <<[name |-> "note.md", doc |-> DocPlain, mtime |-> 0],
       [name |-> "2025-01-01-b-tech.md", doc |-> DocDated, mtime |-> 0]>>,
     <<[name |-> "2025-01-01-a.md", doc |-> DocTagged, mtime |-> 0],
       [name |-> "note.md", doc |-> DocDated, mtime |-> 0],
       [name |-> "2025-01-01-b-tech.md", doc |-> DocPlain, mtime |-> 0]>>}

\* the file system the first run finds: sources dated before the clock
\* starts, a content directory and a static directory that may be absent,
\* an output directory that holds files of an earlier site
Init ==
    /\ now = 1
    /\ date_now = Calendar[1]
    /\ path_exists \in [{"CONTENT_DIR", "STATIC_DIR"} -> BOOLEAN]
    /\ CONTENT_DIR \in
           {<<>>} \cup {dir \in InitialListings : path_exists["CONTENT_DIR"]}
    /\ TEMPLATE_DIR = [t \in TemplateNames |-> 0]
    /\ script_path = 0
    /\ LOOKUP_FILE = [exists |-> FALSE, mtime |-> 0]
    /\ STATIC_DIR = IF path_exists["STATIC_DIR"]
                    THEN [a \in AssetNames |-> [ver |-> 0, mtime |-> 0]]
                    ELSE NoAssets
    /\ OUTPUT_DIR = [f \in JunkNames |-> [content |-> "junk", mtime |-> 0]]
    /\ output_static = NoAssets
    /\ pc = "idle"
    /\ loc = NoBuild
    /\ arg = NoCall
    /\ ret = NoCall
    /\ h = NoHistory
    /\ nedits = 0
    /\ nruns = 0
    /\ nkills = 0

Environment ==
    \/ \E f \in MainFiles, d \in MainDocs : CreateFile(f, d)
    \/ \E i \in 1..Len(CONTENT_DIR), d \in MainDocs : EditFile(i, d)
    \/ \E i \in 1..Len(CONTENT_DIR) : DeleteFile(i)
    \/ \E g \in GlobalDeps : TouchDep(g)
    \/ \E a \in AssetNames, t \in 0..now : PutAsset(a, t)
    \/ \E a \in AssetNames : DeleteAsset(a)
    \/ \E p \in DOMAIN path_exists : RemoveDir(p)
    \/ Tick
    \/ NewDay

Build ==
    \/ \E force \in BOOLEAN : BuildStart(force)
    \/ BuildDay
    \/ BuildIndex
    \/ BuildTags
    \/ BuildTagPage
    \/ Cleanup
    \/ Kill
    \/ KillInWrite

Next == Environment \/ Build

Spec == Init /\ [][Next]_vars

(***************************************************************************)
(* parse_post alone: one call on a document put together from a head (the  *)
(* frontmatter as written) and a body.  Each head comes with the 'date'    *)
(* and 'title' keys its frontmatter gives, PyNone when it gives none; each *)
(* file name with its YYYY-MM-DD prefix, "" when it has none.              *)
(***************************************************************************)

ParseHead(text, date, title) == [text |-> text, date |-> date, title |-> title]

ParseHeads ==
    {ParseHead("", PyNone, PyNone),
     ParseHead("---\ntitle: Tea\n---\n", PyNone, Str("Tea")),
     ParseHead("---\ndate: 2025-01-02\n---\n", Str("2025-01-02"), PyNone),
     ParseHead("---\ndate: 2025-01-02\ntitle: Walk\n---\n",
               Str("2025-01-02"), Str("Walk")),
     \* no closing delimiter: nothing is read
     ParseHead("---\ndate: 2025-01-02\ntitle: Walk\n", PyNone, PyNone),
     \* keys are case-sensitive
     ParseHead("---\nDate: 2025-01-02\nTitle: x\n---\n", PyNone, PyNone),
     \* leading white space, padded key and value
     ParseHead("\n ---\n date : 2025-01-02 \n---\n", Str("2025-01-02"),
               PyNone),
     \* keys without a value
     ParseHead("---\ndate:\ntitle:\n---\n", Str(""), Str("")),
     \* a boolean
     ParseHead("---\ndate: true\n---\n", PyTrue, PyNone),
     \* text before the delimiter: no frontmatter
     ParseHead("text\n---\ndate: 2025-01-02\n---\n", PyNone, PyNone),
     \* lines without a colon
     ParseHead("---\ndate 2025-01-02\ntitle = x\n---\n", PyNone, PyNone)}

\* a body, with the date and time of its first timestamp token as written,
\* "" when it has none
ParseBody(text, first) == [text |-> text, first |-> first]

\* the fourth holds a timestamp that is no date: strptime raises
ParseBodies ==
    {ParseBody("", ""),
     ParseBody("walk\n", ""),
     ParseBody("[[2025/01/02 10:00:00 EST]]\n<<Tea>>\n", "2025/01/02 10:00:00"),
     ParseBody("[[2025/02/30 10:00:00 EST]]\nx\n", "2025/02/30 10:00:00"),
     ParseBody("[[2025 01 02T09:00:00 EST]]\nx\n", "2025 01 02T09:00:00"),
     ParseBody("[[2025/01/02 09:30 EST]]\nx\n", "2025/01/02 09:30")}

ParseFile(name, prefix) == [name |-> name, prefix |-> prefix]

ParseFiles ==
    {ParseFile("2025-03-04-note.md", "2025-03-04"),
     ParseFile("note.md", ""),
     ParseFile("2025-3-4-x.md", ""),
     ParseFile("x-2025-03-04.md", ""),
     ParseFile("20250304.md", ""),
     ParseFile("9999-99-99.md", "9999-99-99")}

\* the variables a single call leaves alone
idle_build ==
    <<now, date_now, CONTENT_DIR, TEMPLATE_DIR, script_path, LOOKUP_FILE,
      STATIC_DIR, path_exists, output_static, loc, h, nedits, nruns, nkills>>

\* the values they have
IdleBuild ==
    /\ now = 1
    /\ CONTENT_DIR = <<>>
    /\ TEMPLATE_DIR = [t \in TemplateNames |-> 0]
    /\ script_path = 0
    /\ LOOKUP_FILE = [exists |-> FALSE, mtime |-> 0]
    /\ STATIC_DIR = NoAssets
    /\ path_exists = [p \in {"CONTENT_DIR", "STATIC_DIR"} |-> FALSE]
    /\ output_static = NoAssets
    /\ loc = NoBuild
    /\ h = NoHistory
    /\ nedits = 0
    /\ nruns = 0
    /\ nkills = 0

InitParse ==
    /\ IdleBuild
    /\ date_now \in Days
    /\ OUTPUT_DIR = EmptyDir
    /\ pc = "call"
    /\ arg \in {[op |-> "parse_post", file |-> f, head |-> hd, body |-> b] :
                   f \in ParseFiles, hd \in ParseHeads, b \in ParseBodies}
    /\ ret = NoCall

\* parse_post(filepath) on the file arg.file.name holding head and body
ParsePost ==
    /\ pc = "call"
    /\ arg.op = "parse_post"
    /\ ret' = parse_post(arg.file.name, arg.head.text \o arg.body.text,
                       date_now)
    /\ pc' = "returned"
    /\ UNCHANGED <<idle_build, OUTPUT_DIR, arg>>

NextParse == ParsePost

SpecParse == InitParse /\ [][NextParse]_vars

(***************************************************************************)
(* write_if_changed alone: one call, the new text and the text of the file *)
(* put together from a body and two footer fields.  Each field says        *)
(* whether time_pattern matches it; the residue of a text is what is left  *)
(* of it without the fields that match.                                    *)
(***************************************************************************)

Stamp(text, volatile) == [text |-> text, volatile |-> volatile]

Stamps ==
    {Stamp("", FALSE),
     Stamp("updated last: 2025/01/01 00:00:01 UTC", TRUE),
     Stamp("updated last: 2025/01/01 00:00:02 EST", TRUE),
     \* another zone
     Stamp("updated last: 2025/01/01 00:00:01 GMT", FALSE),
     \* another case
     Stamp("Updated last: 2025/01/01 00:00:01 UTC", FALSE)}

\* the fields a text can hold twice
SecondStamps ==
    {Stamp("", FALSE),
     Stamp("updated last: 2025/01/01 00:00:02 UTC", TRUE),
     \* dashes in the date
     Stamp("updated last: 2025-01-01 00:00:01 UTC", FALSE)}

PageBodies == {"<p>a</p>", "<p>b</p>"}

\* what a field leaves when the matches are removed
left_of(stamp) == IF stamp.volatile THEN "" ELSE stamp.text

Pages ==
    {[text |-> b \o "<i>" \o s1.text \o "</i>" \o s2.text,
      residue |-> b \o "<i>" \o left_of(s1) \o "</i>" \o left_of(s2)] :
        b \in PageBodies, s1 \in Stamps, s2 \in SecondStamps}

InitWrite ==
    /\ IdleBuild
    /\ date_now = Calendar[1]
    /\ pc = "call"
    /\ arg \in {[op |-> "write_if_changed", path |-> "page.html",
                 new |-> new, exists |-> e, old |-> old, force |-> f] :
                   new \in Pages, e \in BOOLEAN, old \in Pages,
                   f \in BOOLEAN}
    /\ OUTPUT_DIR = IF arg.exists
                    THEN [f \in {arg.path} |->
                             [content |-> arg.old.text, mtime |-> 0]]
                    ELSE EmptyDir
    /\ ret = NoCall

\* write_if_changed(path, content, force)
WriteIfChanged ==
    /\ pc = "call"
    /\ arg.op = "write_if_changed"
    /\ OUTPUT_DIR' = write_if_changed(OUTPUT_DIR, arg.path, arg.new.text,
                                      arg.force, now)
    /\ ret' = [op |-> "write_if_changed",
               written |-> should_write(OUTPUT_DIR, arg.path, arg.new.text,
                                        arg.force)]
    /\ pc' = "returned"
    /\ UNCHANGED <<idle_build, arg>>

NextWrite == WriteIfChanged

SpecWrite == InitWrite /\ [][NextWrite]_vars

(***************************************************************************)
(* The order of the entries of a day: runs of build() on the directories   *)
(* that list some of the files of one day, in every listing order.         *)
(***************************************************************************)

\* files in a directory
MaxSortFiles == 3

\* the listings of 2 to MaxSortFiles of the files
SortListings ==
    {s \in UNION {[1..n -> SortFiles] : n \in 2..MaxSortFiles} :
        \A i, j \in 1..Len(s) : i # j => s[i] # s[j]}

InitSort ==
    /\ now = 1
    /\ date_now = Calendar[1]
    /\ CONTENT_DIR \in {[i \in 1..Len(s) |->
                            [name |-> s[i], doc |-> SortDoc(s[i]),
                             mtime |-> 0]] : s \in SortListings}
    /\ TEMPLATE_DIR = [t \in TemplateNames |-> 0]
    /\ script_path = 0
    /\ LOOKUP_FILE = [exists |-> FALSE, mtime |-> 0]
    /\ STATIC_DIR = NoAssets
    /\ path_exists = [p \in {"CONTENT_DIR", "STATIC_DIR"} |->
                         p = "CONTENT_DIR"]
    /\ OUTPUT_DIR = EmptyDir
    /\ output_static = NoAssets
    /\ pc = "idle"
    /\ loc = NoBuild
    /\ arg = NoCall
    /\ ret = NoCall
    /\ h = NoHistory
    /\ nedits = 0
    /\ nruns = 0
    /\ nkills = 0

NextSort ==
    \/ \E force \in BOOLEAN : BuildStart(force)
    \/ BuildDay
    \/ BuildIndex
    \/ BuildTags
    \/ BuildTagPage
    \/ Cleanup

SpecSort == InitSort /\ [][NextSort]_vars

(***************************************************************************)
(* Properties.  What a run should have produced is stated from the files   *)
(* of the content directory and their dates, not from the locals of the    *)
(* run.                                                                    *)
(***************************************************************************)

\* the .html files directly in an output directory
html_files(dir) == {f \in DOMAIN dir : endswith(f, ".html")}

\* the posts of the content directory
md_files == {i \in 1..Len(CONTENT_DIR) : endswith(CONTENT_DIR[i].name, ".md")}

\* the post in the i-th file
post_at(i) == parsed_post(CONTENT_DIR[i].name, CONTENT_DIR[i].doc, date_now)

\* the date of the i-th file
date_at_file(i) == post_at(i).metadata["date"].v

\* the dates of the posts
post_dates == {date_at_file(i) : i \in md_files}

\* the slugs of the tags of the posts
tag_slugs ==
    UNION {{post_at(i).tags[k].slug : k \in 1..Len(post_at(i).tags)} :
              i \in md_files}

\* the page of a day
page_of(d) == d \o ".html"

\* the pages that list others
listing_pages == {"index.html", "tags.html"}
                     \cup {"tag_" \o s \o ".html" : s \in tag_slugs}

\* the pages of the site
site_pages == listing_pages \cup {page_of(d) : d \in post_dates}

\* the mtimes of the global dependencies
global_dep_mtimes ==
    {script_path} \cup {TEMPLATE_DIR[t] : t \in DOMAIN TEMPLATE_DIR}
        \cup (IF LOOKUP_FILE.exists THEN {LOOKUP_FILE.mtime} ELSE {})

\* the mtimes of everything the page of day d depends on
dep_mtimes(d) ==
    global_dep_mtimes
        \cup {CONTENT_DIR[i].mtime : i \in {j \in md_files : date_at_file(j) = d}}

\* the page of day d, as the run found it, is newer than every dependency
was_newer(d) == \A m \in dep_mtimes(d) : h.out0[page_of(d)].mtime > m

\* two output directories hold the same files with the same text, the
\* 'updated last:' fields aside
same_dirs(new, old) ==
    /\ DOMAIN new = DOMAIN old
    /\ \A f \in DOMAIN new : normalize(new[f].content) = normalize(old[f].content)

\* a complete run has just followed a complete run, no source having
\* changed in between
in_succession == pc = "done" /\ h.p_last = "done" /\ ~h.p_changed

\* C1: after a complete run the .html files directly in the output
\* directory are exactly index.html, tags.html, one page per post date and
\* one page per tag slug, whatever the directory held before.
C1_OutputSet == pc = "done" => html_files(OUTPUT_DIR) = site_pages

\* a second run has removed the page of a day that lost its posts, and has
\* kept day pages and tag pages
C1_Witness ==
    /\ pc = "done"
    /\ \E f \in h.removed : f # "old.html"
    /\ Cardinality(html_files(OUTPUT_DIR)) >= 4

\* C2, as stated: a complete run right after a complete run, with no change
\* to any source, leaves the output directory as it was but for the
\* 'updated last:' fields, and (taken to speak of a run without force)
\* rewrites no listing page.
C2_Original ==
    in_succession =>
        /\ same_dirs(OUTPUT_DIR, h.out0)
        /\ output_static = h.static0
        /\ ~loc.force => h.written \cap listing_pages = {}

\* C2, amended: the same holds of a second run that is on the same day as
\* the first and is not forced.
C2_Idempotent ==
    (in_succession /\ ~h.p_day_changed /\ ~loc.force) =>
        /\ same_dirs(OUTPUT_DIR, h.out0)
        /\ output_static = h.static0
        /\ h.written \cap listing_pages = {}

\* a second, unforced run some time after the first on a site with tags: it
\* wrote nothing although its build time is another
C2_Witness ==
    /\ in_succession
    /\ ~h.p_day_changed
    /\ ~loc.force
    /\ now > 1
    /\ tag_slugs # {}
    /\ h.written = {}
    /\ \E f \in listing_pages : OUTPUT_DIR[f].mtime < now

\* C3: a day page is rebuilt when force is set, when it does not exist, and
\* otherwise unless its mtime is strictly greater than the mtimes of all the
\* global dependencies and of all the posts of the day.
C3_RebuildDecision ==
    pc = "done" =>
        \A d \in post_dates :
            page_of(d) \in h.written
                <=> \/ loc.force
                    \/ page_of(d) \notin DOMAIN h.out0
                    \/ ~was_newer(d)

\* an unforced run rebuilt a page that was exactly as old as its newest
\* dependency
C3_Witness ==
    /\ pc = "done"
    /\ ~loc.force
    /\ \E d \in post_dates :
          /\ page_of(d) \in DOMAIN h.out0
          /\ page_of(d) \in h.written
          /\ h.out0[page_of(d)].mtime \in dep_mtimes(d)
          /\ \A m \in dep_mtimes(d) : m <= h.out0[page_of(d)].mtime

\* C4: global_mtime is the greatest mtime among the templates, the lookup
\* file and the builder; an unforced run leaves alone a page newer than all
\* its dependencies, and rewrites every day page once any of the templates,
\* the lookup file or the builder has been touched since the run before.
C4_GlobalDependencies ==
    (pc = "done" /\ ~loc.force) =>
        /\ loc.global_mtime \in global_dep_mtimes
        /\ \A m \in global_dep_mtimes : m <= loc.global_mtime
        /\ \A d \in post_dates :
              (page_of(d) \in DOMAIN h.out0 /\ was_newer(d))
                  => page_of(d) \notin h.written
        /\ h.p_touched # {} =>
              \A d \in post_dates : page_of(d) \in h.written

\* a dependency was touched after a complete run, and the unforced run that
\* followed rewrote a page that was newer than its posts
C4_Witness ==
    /\ pc = "done"
    /\ ~loc.force
    /\ h.p_last = "done"
    /\ h.p_touched # {}
    /\ \E d \in post_dates :
          /\ page_of(d) \in DOMAIN h.out0
          /\ page_of(d) \in h.written
          /\ \A i \in md_files :
                date_at_file(i) = d
                    => CONTENT_DIR[i].mtime < h.out0[page_of(d)].mtime

\* the pages a run renders from what it read
rendered(f) ==
    IF f = "index.html" THEN index_html(loc)
    ELSE IF f = "tags.html" THEN tags_html(loc)
    ELSE IF \E i \in 1..Len(loc.all_tags) : tag_filename(loc, i) = f
    THEN tag_page_html(loc, CHOOSE i \in 1..Len(loc.all_tags) :
                                tag_filename(loc, i) = f)
    ELSE day_html(loc, SubSeq(f, 1, Len(f) - 5))

\* C5: after a killed run, the next complete unforced run on unchanged
\* sources leaves every page of the site as an uninterrupted run would
\* have written it, the 'updated last:' field aside.
C5_CrashRecovery ==
    (/\ pc = "done"
     /\ h.p_last = "killed"
     /\ ~h.p_changed
     /\ ~h.p_day_changed
     /\ ~loc.force) =>
        \A f \in site_pages :
            /\ f \in DOMAIN OUTPUT_DIR
            /\ normalize(OUTPUT_DIR[f].content) = normalize(rendered(f))

\* C6: write_if_changed writes and returns True exactly when force is set,
\* or the file is absent, or the two texts differ once the 'updated last:'
\* fields are taken out; otherwise the file keeps its text.
C6_WriteIfChanged ==
    (pc = "returned" /\ arg.op = "write_if_changed") =>
        /\ ret.written <=> \/ arg.force
                           \/ ~arg.exists
                           \/ arg.new.residue # arg.old.residue
        /\ arg.path \in DOMAIN OUTPUT_DIR
        /\ OUTPUT_DIR[arg.path] =
               IF ret.written THEN [content |-> arg.new.text, mtime |-> now]
               ELSE [content |-> arg.old.text, mtime |-> 0]

\* the call found a file that differed from the new text in its
\* 'updated last:' fields only (one of them EST), and left it alone
C6_Witness ==
    /\ pc = "returned"
    /\ arg.op = "write_if_changed"
    /\ ~ret.written
    /\ arg.new.text # arg.old.text
    /\ Len(arg.old.text) > Len(arg.new.text)
    /\ \E i \in 1..Len(arg.old.text) :
          slice(arg.old.text, i, i + 2) = "EST"

\* C7: the cleanup loop leaves every file whose name does not end in .html
\* as it is, and the mirrored static tree as it is.
C7_CleanupFrame ==
    [][(pc = "cleanup" /\ pc' = "done") =>
          /\ \A f \in DOMAIN OUTPUT_DIR :
                ~endswith(f, ".html")
                    => f \in DOMAIN OUTPUT_DIR' /\ OUTPUT_DIR'[f] = OUTPUT_DIR[f]
          /\ output_static' = output_static]_vars

\* the cleanup has removed a stale page next to a file that is no page and
\* belongs to no post, the static tree being mirrored
C7_Witness ==
    /\ pc = "done"
    /\ h.removed # {}
    /\ "CNAME" \in DOMAIN OUTPUT_DIR
    /\ "CNAME" \notin site_pages
    /\ DOMAIN output_static # {}

\* whether a file is a tech variant
tech_file(f) == endswith(f, "-tech.md")

\* the entries of a day are in order
in_order(entries) ==
    \A i, j \in 1..Len(entries) :
        i < j =>
            /\ tech_file(entries[i].filename) => tech_file(entries[j].filename)
            /\ tech_file(entries[i].filename) = tech_file(entries[j].filename)
                   => /\ ~StrLess(entries[j].sort_key, entries[i].sort_key)
                      /\ entries[i].sort_key = entries[j].sort_key
                             => StrLess(entries[i].filename,
                                        entries[j].filename)

\* the days whose page the run has rendered
days_rendered ==
    {d \in DOMAIN loc.posts_by_date :
        \A k \in 1..Len(loc.dates) : loc.dates[k] # d}

\* C8: the entries of every rendered day are the posts of the day, every
\* tech variant after every other entry, each of the two kinds by sort key
\* and then by file name.
C8_EntryOrder ==
    (pc \in Running \cup {"done"}) =>
        \A d \in days_rendered :
            /\ in_order(loc.posts_by_date[d].entries)
            /\ Len(loc.posts_by_date[d].entries)
                   = Cardinality({i \in md_files : date_at_file(i) = d})
            /\ \A i \in md_files :
                  date_at_file(i) = d =>
                      \E k \in 1..Len(loc.posts_by_date[d].entries) :
                          /\ loc.posts_by_date[d].entries[k].filename
                                 = CONTENT_DIR[i].name
                          /\ loc.posts_by_date[d].entries[k].sort_key
                                 = post_at(i).sort_key

\* a day was rendered whose listing had a tech variant with a timestamp
\* before an entry that has none, and the entry without one comes first
C8_Witness ==
    /\ pc = "done"
    /\ \E d \in days_rendered :
          \E i, j \in 1..Len(loc.posts_by_date[d].entries) :
              /\ i < j
              /\ ~tech_file(loc.posts_by_date[d].entries[i].filename)
              /\ loc.posts_by_date[d].entries[i].sort_key = NoTimestampKey
              /\ tech_file(loc.posts_by_date[d].entries[j].filename)
              /\ loc.posts_by_date[d].entries[j].sort_key # NoTimestampKey
              /\ \E a, b \in md_files :
                    /\ a < b
                    /\ CONTENT_DIR[a].name
                           = loc.posts_by_date[d].entries[j].filename
                    /\ CONTENT_DIR[b].name
                           = loc.posts_by_date[d].entries[i].filename

\* C9: a post whose frontmatter gives no date gets the YYYY-MM-DD prefix of
\* its file name, or the current date when the name has none; a date the
\* frontmatter gives is kept.
C9_DateInference ==
    (pc = "returned" /\ arg.op = "parse_post" /\ ~ret.raises) =>
        /\ "date" \in DOMAIN ret.metadata
        /\ ret.metadata["date"] =
               IF arg.head.date # PyNone THEN arg.head.date
               ELSE IF arg.file.prefix # "" THEN Str(arg.file.prefix)
               ELSE Str(date_now)

\* a post with a date in its frontmatter and another in its file name
C9_Witness ==
    /\ pc = "returned"
    /\ arg.op = "parse_post"
    /\ ~ret.raises
    /\ arg.head.date = Str("2025-01-02")
    /\ arg.file.prefix = "2025-03-04"
    /\ ret.metadata["date"] = Str("2025-01-02")

\* C10: the post parse_post returns has a date and a title, and the title
\* is the date when the frontmatter gives none: the file 2025-03-04-note.md
\* without frontmatter has both equal to 2025-03-04.
C10_DateAndTitle ==
    (pc = "returned" /\ arg.op = "parse_post" /\ ~ret.raises) =>
        /\ "date" \in DOMAIN ret.metadata
        /\ "title" \in DOMAIN ret.metadata
        /\ arg.head.title = PyNone
               => ret.metadata["title"] = ret.metadata["date"]
        /\ arg.head.title # PyNone => ret.metadata["title"] = arg.head.title
        /\ (arg.file.name = "2025-03-04-note.md" /\ arg.head.text = "")
               => /\ ret.metadata["date"] = Str("2025-03-04")
                  /\ ret.metadata["title"] = Str("2025-03-04")

\* a file whose frontmatter was never closed: the title is the current date
C10_Witness ==
    /\ pc = "returned"
    /\ arg.op = "parse_post"
    /\ ~ret.raises
    /\ arg.head.text = "---\ndate: 2025-01-02\ntitle: Walk\n"
    /\ arg.file.prefix = ""
    /\ ret.metadata["title"] = Str(date_now)

(***************************************************************************)
(* The timestamp pass alone: the body is put together from lines, each     *)
(* with the number of timestamp tokens it holds.                           *)
(***************************************************************************)

\* lines in a body
MaxBodyLines == 3

BodyLine(text, tokens) == [text |-> text, tokens |-> tokens]

BodyLines ==
    {BodyLine("walk\n", 0),
     BodyLine("[[2025/01/02 10:00:00 EST]]\n", 1),
     \* a title before the token, the time without seconds
     BodyLine("NOTES [[2025/01/03 09:30 UTC]]\n", 1),
     \* blanks in the date, four digits of time, the zone in parentheses
     BodyLine("[[2025 01 04T1000 (EST)]] x\n", 1),
     \* two tokens on one line
     BodyLine("[[2025/01/05 10:00:00 EST]] a [[2025/01/06 11:00:00 EST]]\n",
              2),
     \* no timestamp between the brackets
     BodyLine("[[nope]]\n", 0)}

\* the bodies of up to MaxBodyLines lines
Bodies == UNION {[1..n -> BodyLines] : n \in 0..MaxBodyLines}

\* the text of the lines from the k-th on
RECURSIVE text_of(_, _)
text_of(lines, k) ==
    IF k > Len(lines) THEN "" ELSE lines[k].text \o text_of(lines, k + 1)

\* the number of tokens of the lines from the k-th on
RECURSIVE tokens_of(_, _)
tokens_of(lines, k) ==
    IF k > Len(lines) THEN 0 ELSE lines[k].tokens + tokens_of(lines, k + 1)

InitBody ==
    /\ IdleBuild
    /\ date_now = Calendar[1]
    /\ OUTPUT_DIR = EmptyDir
    /\ pc = "call"
    /\ arg \in {[op |-> "restructure", lines |-> b] : b \in Bodies}
    /\ ret = NoCall

\* the timestamp and tag passes of parse_post on the body
Restructure ==
    /\ pc = "call"
    /\ arg.op = "restructure"
    /\ ret' = restructure(text_of(arg.lines, 1))
    /\ pc' = "returned"
    /\ UNCHANGED <<idle_build, OUTPUT_DIR, arg>>

NextBody == Restructure

SpecBody == InitBody /\ [][NextBody]_vars

\* the places of s where sub begins
places(s, sub) == {i \in 1..Len(s) : slice(s, i, i + Len(sub) - 1) = sub}

\* the horizontal rule the pass inserts
Separator == "\n\n---\n\n"

\* C11: a body with n timestamp tokens comes out with n - 1 separators, none
\* for n = 0, and none before the first entry block.
C11_Separators ==
    (pc = "returned" /\ arg.op = "restructure" /\ ~ret.raises) =>
        /\ Cardinality(places(ret.text, Separator))
               = max(0, tokens_of(arg.lines, 1) - 1)
        /\ \A i \in places(ret.text, Separator) :
              \E k \in places(ret.text, "<h3 ") : k < i

\* the files that hold a tag of slug s
files_tagged(s) ==
    {i \in md_files :
        \E k \in 1..Len(post_at(i).tags) : post_at(i).tags[k].slug = s}

\* the names under which the posts give the tag of slug s
names_tagged(s) ==
    UNION {{post_at(i).tags[k].name :
               k \in {m \in 1..Len(post_at(i).tags) :
                         post_at(i).tags[m].slug = s}} : i \in md_files}

\* the first tag of slug s among tags
first_tagged(tags, s) ==
    tags[SetMin({k \in 1..Len(tags) : tags[k].slug = s})]

\* the name of the tag of slug s in the first file of the listing that has it
first_name(s) ==
    first_tagged(post_at(SetMin(files_tagged(s))).tags, s).name

\* the tags of the run that have slug s
tags_of_slug(s) ==
    {i \in 1..Len(loc.all_tags) : loc.all_tags[i].slug = s}

\* C12: a complete run has one tag per slug of the posts, under the name the
\* listing gives first, with one page tag_<slug>.html.
C12_TagsBySlug ==
    pc = "done" =>
        /\ \A i \in 1..Len(loc.all_tags) : loc.all_tags[i].slug \in tag_slugs
        /\ \A s \in tag_slugs :
              /\ Cardinality(tags_of_slug(s)) = 1
              /\ \A i \in tags_of_slug(s) :
                    loc.all_tags[i].name = first_name(s)
              /\ ("tag_" \o s \o ".html") \in DOMAIN OUTPUT_DIR

\* two posts name one slug differently, the lower-case name comes first in
\* the listing and is the one kept
C12_Witness ==
    /\ pc = "done"
    /\ \E s \in tag_slugs :
          /\ Cardinality(names_tagged(s)) = 2
          /\ first_name(s) = "tea"
          /\ \A i \in tags_of_slug(s) : loc.all_tags[i].name = "tea"

\* the pages of the days on which a post has a tag of slug s
pages_tagged(s) == {page_of(date_at_file(i)) : i \in files_tagged(s)}

\* the positions of page u in the items of a tag
items_of(tag, u) == {k \in 1..Len(tag.posts) : tag.posts[k].url = u}

\* C13: after a complete run each tag lists each day page at most once, and
\* lists exactly the pages of the days on which some post has the tag.
C13_TagPosts ==
    pc = "done" =>
        \A i \in 1..Len(loc.all_tags) :
            /\ \A u \in pages_tagged(loc.all_tags[i].slug) :
                  Cardinality(items_of(loc.all_tags[i], u)) = 1
            /\ \A k \in 1..Len(loc.all_tags[i].posts) :
                  /\ loc.all_tags[i].posts[k].url
                         \in pages_tagged(loc.all_tags[i].slug)
                  /\ loc.all_tags[i].posts[k].url
                         = page_of(loc.all_tags[i].posts[k].date)

\* two posts of one day have the same tag, and the tag lists the page of
\* that day once
C13_Witness ==
    /\ pc = "done"
    /\ \E i \in 1..Len(loc.all_tags) :
          /\ \E f, g \in files_tagged(loc.all_tags[i].slug) :
                f # g /\ date_at_file(f) = date_at_file(g)
          /\ Len(loc.all_tags[i].posts) = 1

(***************************************************************************)
(* slugify alone: one call on a name, and one on the same name written in  *)
(* another case or with other accents.  A name is a sequence of pieces,    *)
(* each the lower-case unaccented form of a character; a name is written   *)
(* in one of four forms: lower, upper, accented lower, accented upper.     *)
(***************************************************************************)

MaxNameLen == 3

Pieces == {"e", "c", "7", "_", " ", "-", "!"}

Forms == 1..4

\* the letters that have the four forms, and each form of them in turn
Plain == "ec"

Written == <<"ec", "EC", "éç", "ÉÇ">>

\* the piece as it is written in form k
form_of(piece, k) ==
    IF IndexOf(piece, Plain) > 0 THEN ch(Written[k], IndexOf(piece, Plain))
    ELSE piece

\* word character, separator, or neither
kind_of(piece) ==
    IF piece \in {"e", "c", "7", "_"} THEN "word"
    ELSE IF piece \in {" ", "-"} THEN "sep"
    ELSE "other"

Names == UNION {[1..n -> Pieces] : n \in 0..MaxNameLen}

\* the name written in form k
RECURSIVE written(_, _)
written(pieces, k) ==
    IF Len(pieces) = 0 THEN ""
    ELSE form_of(Head(pieces), k) \o written(Tail(pieces), k)

InitSlug ==
    /\ IdleBuild
    /\ date_now = Calendar[1]
    /\ OUTPUT_DIR = EmptyDir
    /\ pc = "call"
    /\ arg \in {[op |-> "slugify", pieces |-> n, form |-> k, other |-> m] :
                   n \in Names, k \in Forms, m \in Forms}
    /\ ret = NoCall

\* slugify(value) on the name in the form arg.form and in the form arg.other
Slugify ==
    /\ pc = "call"
    /\ arg.op = "slugify"
    /\ ret' = [slug |-> slugify(written(arg.pieces, arg.form)),
               sibling |-> slugify(written(arg.pieces, arg.other))]
    /\ pc' = "returned"
    /\ UNCHANGED <<idle_build, OUTPUT_DIR, arg>>

NextSlug == Slugify

SpecSlug == InitSlug /\ [][NextSlug]_vars

\* the slug the pieces call for: the letters of the word characters, in
\* lower case and without accents, with one hyphen where separators lie
\* between two of them; gap says that a separator has been passed since the
\* last letter
RECURSIVE slug_wanted(_, _, _)
slug_wanted(pieces, done, gap) ==
    IF Len(pieces) = 0 THEN done
    ELSE IF kind_of(Head(pieces)) = "word"
         THEN slug_wanted(Tail(pieces),
                          done \o (IF gap /\ done # "" THEN "-" ELSE "")
                               \o Head(pieces),
                          FALSE)
    ELSE IF kind_of(Head(pieces)) = "sep"
         THEN slug_wanted(Tail(pieces), done, TRUE)
    ELSE slug_wanted(Tail(pieces), done, gap)

\* C14: the slug of a name is its word characters in lower case without
\* accents, runs of whitespace and hyphens between them collapsed to one
\* hyphen, none leading or trailing; the same name in another case or with
\* other accents has the same slug.
C14_Slugify ==
    (pc = "returned" /\ arg.op = "slugify") =>
        /\ ret.slug = slug_wanted(arg.pieces, "", FALSE)
        /\ ret.sibling = ret.slug

\* a name of two word characters with a separator between them, written in
\* two different forms, comes out twice as the same three characters
C14_Witness ==
    /\ pc = "returned"
    /\ arg.op = "slugify"
    /\ written(arg.pieces, arg.form) # written(arg.pieces, arg.other)
    /\ Len(arg.pieces) = MaxNameLen
    /\ \E i, j \in 1..Len(arg.pieces) :
          /\ i + 1 < j
          /\ kind_of(arg.pieces[i]) = "word"
          /\ kind_of(arg.pieces[j]) = "word"
          /\ \A k \in (i + 1)..(j - 1) : kind_of(arg.pieces[k]) = "sep"
    /\ Len(ret.slug) = 3
    /\ ret.sibling = ret.slug

\* the file named f holds a page of the run, with its build time
fresh(f) ==
    /\ f \in DOMAIN OUTPUT_DIR
    /\ endswith(OUTPUT_DIR[f].content, footer(loc.build_time))

\* C15: a complete run with force writes every day page, index.html,
\* tags.html and every tag page, whatever the output directory held.
C15_Force ==
    (pc = "done" /\ loc.force) =>
        /\ site_pages \subseteq h.written
        /\ \A f \in site_pages : fresh(f)

\* a forced run right after a complete run, no source having changed, every
\* day page being newer than what it depends on, has written day pages,
\* tag pages and the two indexes
C15_Witness ==
    /\ in_succession
    /\ loc.force
    /\ h.touched = {}
    /\ post_dates # {}
    /\ tag_slugs # {}
    /\ \A d \in post_dates : page_of(d) \in DOMAIN h.out0 /\ was_newer(d)
    /\ site_pages \subseteq h.written

\* asset a of the mirrored tree is as the run found it
asset_kept(a) == a \in DOMAIN h.static0 /\ output_static[a] = h.static0[a]

\* the run found no asset a, or found one strictly older than the source's
asset_due(a) ==
    a \notin DOMAIN h.static0 \/ STATIC_DIR[a].mtime > h.static0[a].mtime

\* what the mirroring of the running build did with asset a of the mirrored
\* tree: the source's file where the copy was due, nothing otherwise
asset_mirrored(a) ==
    IF a \in DOMAIN STATIC_DIR /\ asset_due(a)
    THEN output_static[a] = STATIC_DIR[a]
    ELSE asset_kept(a)

\* C16: the mirroring copies an asset when, and only when, the destination
\* is absent or strictly older than the source, and no step ever takes an
\* asset out of the mirrored tree.
C16_StaticMirror ==
    /\ [](pc \in Running =>
             /\ DOMAIN STATIC_DIR \subseteq DOMAIN output_static
             /\ \A a \in DOMAIN output_static : asset_mirrored(a))
    /\ [][DOMAIN output_static \subseteq DOMAIN output_static']_vars

\* a second run has left alone an asset deleted from the source tree since
\* the first
C16_Witness ==
    /\ pc = "done"
    /\ nruns = 2
    /\ \E a \in DOMAIN output_static :
          a \notin DOMAIN STATIC_DIR /\ asset_kept(a)

\* a second run has left alone an asset whose source was replaced by a file
\* of the same mtime
C16_WitnessSame ==
    /\ pc \in Running
    /\ \E a \in DOMAIN STATIC_DIR :
          /\ asset_kept(a)
          /\ STATIC_DIR[a].ver # output_static[a].ver
          /\ STATIC_DIR[a].mtime = output_static[a].mtime

\* the run that has just ended found the content directory absent
content_absent == ~path_exists["CONTENT_DIR"]

\* the file named f holds text but for the 'updated last:' field
holds(f, text) ==
    f \in DOMAIN OUTPUT_DIR /\ same_but_time(OUTPUT_DIR[f].content, text)

\* C17: a run ends in an exception only when a post of an existing content
\* directory cannot be parsed, never because the content directory, the
\* static directory or the lookup file is absent; a complete run without a
\* content directory leaves index.html and tags.html, empty of posts and
\* tags, as the only .html files, every other having been removed.
C17_MissingInputs ==
    /\ pc = "crashed" =>
          /\ path_exists["CONTENT_DIR"]
          /\ \E i \in md_files : post_at(i).raises
    /\ (pc = "done" /\ content_absent) =>
          /\ html_files(OUTPUT_DIR) = {"index.html", "tags.html"}
          /\ holds("index.html", render_index(<<>>, loc.build_time))
          /\ holds("tags.html", render_tags(<<>>, loc.build_time))
          /\ h.removed = html_files(h.out0) \ {"index.html", "tags.html"}

\* the content directory, the static directory and the lookup file are all
\* absent, and the run has removed the pages an earlier run made of the
\* content directory there was
C17_Witness ==
    /\ pc = "done"
    /\ content_absent
    /\ ~path_exists["STATIC_DIR"]
    /\ ~LOOKUP_FILE.exists
    /\ \E f \in h.removed : f \notin JunkNames
    /\ html_files(OUTPUT_DIR) = {"index.html", "tags.html"}

\* the files of day d
files_of(d) == {i \in md_files : date_at_file(i) = d}

\* the file is marked as future-dated in its frontmatter
future_dated(i) == truthy(get(post_at(i).metadata, "future", PyFalse))

\* the items of the index for day d
index_items(d) ==
    {k \in 1..Len(loc.index_posts) : loc.index_posts[k].date = d}

\* the item is the one of its day
index_item_of_day(item) ==
    /\ item.date \in post_dates
    /\ item.title = item.date
    /\ item.url = page_of(item.date)
    /\ item.image \in {""} \cup {get(post_at(i).metadata, "image", PyNone).v :
                                   i \in files_of(item.date)}
    /\ item.is_future = (\E i \in files_of(item.date) : future_dated(i))

\* C20: once the day pages are done the index has one item for each day
\* that has a post, the newest day first, and the future flag of an item is
\* true exactly when a post of its day is marked as future-dated.
C20_IndexItems ==
    pc \in {"index", "tags", "tagpages", "cleanup", "done"} =>
        /\ \A d \in post_dates : Cardinality(index_items(d)) = 1
        /\ \A k \in 1..Len(loc.index_posts) :
              index_item_of_day(loc.index_posts[k])
        /\ \A k \in 1..(Len(loc.index_posts) - 1) :
              StrLess(loc.index_posts[k + 1].date, loc.index_posts[k].date)

\* the index has two days: one with a post marked as future-dated and a
\* post that is not, flagged, and one without, not flagged
C20_Witness ==
    /\ pc = "done"
    /\ Len(loc.index_posts) = 2
    /\ \E k \in 1..2 :
          /\ loc.index_posts[k].is_future
          /\ \E i \in files_of(loc.index_posts[k].date) : ~future_dated(i)
    /\ \E k \in 1..2 : ~loc.index_posts[k].is_future

\* the text with '/' for every ' ' and 'T': one delimiter style
one_style(text) == replace(replace(text, " ", "/"), "T", "/")

\* C21: the sort key of a post is the sentinel exactly when its body has no
\* timestamp token; otherwise it is the date and time of the first token in
\* one delimiter style, which sorts before the sentinel.
C21_SortKey ==
    (pc = "returned" /\ arg.op = "parse_post" /\ ~ret.raises) =>
        /\ (ret.sort_key = NoTimestampKey) <=> (arg.body.first = "")
        /\ arg.body.first # "" =>
              /\ StrLess(ret.sort_key, NoTimestampKey)
              /\ slice(ret.sort_key, 1, Len(arg.body.first))
                     = one_style(arg.body.first)

\* C22: a body with no timestamp token or with one comes out of the
\* timestamp pass without a heading and without a separator; a body with
\* two or more comes out with headings.
C22_SingleBlock ==
    (pc = "returned" /\ arg.op = "restructure" /\ ~ret.raises) =>
        IF tokens_of(arg.lines, 1) <= 1
        THEN /\ places(ret.text, "<h3 ") = {}
             /\ places(ret.text, Separator) = {}
        ELSE places(ret.text, "<h3 ") # {}

\* the document of the call
document == arg.head.text \o arg.body.text

\* the document has no frontmatter block: it does not begin, leading white
\* space aside, with the delimiter, or the delimiter occurs once only
no_frontmatter(doc) ==
    \/ ~startswith(lstrip(doc), "---")
    \/ Cardinality(places(doc, "---")) < 2

\* the date of a post whose frontmatter gives none
inferred_date ==
    IF arg.file.prefix # "" THEN Str(arg.file.prefix) ELSE Str(date_now)

entry_files(group) ==
    {group.entries[k].filename : k \in 1..Len(group.entries)}

\* the group of day d is the one of the files of that day
group_of_day(d, group) ==
    /\ Len(group.entries) > 0
    /\ Len(group.entries) = Cardinality(files_of(d))
    /\ entry_files(group) = {CONTENT_DIR[i].name : i \in files_of(d)}
    /\ group.max_mtime = SetMax({CONTENT_DIR[i].mtime : i \in files_of(d)})
    /\ group.has_future =
           (\E k \in 1..Len(group.entries) :
               truthy(group.entries[k].is_future))

\* C25: while a run goes on and when it is complete, there is one group
\* for each day that has a post, none is empty, each has the entries of the
\* files of its day, the greatest of their mtimes as max_mtime and the OR of
\* their future flags as has_future.
C25_DayGroups ==
    pc \in Running \cup {"done"} =>
        /\ DOMAIN loc.posts_by_date = post_dates
        /\ \A d \in post_dates : group_of_day(d, loc.posts_by_date[d])

\* a group of two files, the first of the listing newer than the second:
\* max_mtime is the mtime of the first
C25_Witness ==
    /\ pc = "done"
    /\ \E d \in post_dates :
          \E i, k \in files_of(d) :
              /\ i < k
              /\ CONTENT_DIR[i].mtime > CONTENT_DIR[k].mtime
              /\ loc.posts_by_date[d].max_mtime = CONTENT_DIR[i].mtime

\* C26: after a complete unforced run, in a history where no run was killed,
\* the page of every day with posts is on disk and is, the 'updated last:'
\* field aside, the rendering of the day's group as the run aggregated it
\* from the source files.
C26_DayPageFresh ==
    (pc = "done" /\ ~loc.force /\ nkills = 0) =>
        \A d \in post_dates :
            /\ page_of(d) \in DOMAIN OUTPUT_DIR
            /\ normalize(OUTPUT_DIR[page_of(d)].content)
                   = normalize(day_html(loc, d))

\* the orders n files can be listed in
orders(n) ==
    {p \in [1..n -> 1..n] : \A i, j \in 1..n : i # j => p[i] # p[j]}

\* the listings of the files of dir, in every order
listings_of(dir) ==
    {[i \in 1..Len(dir) |-> dir[p[i]]] : p \in orders(Len(dir))}

\* the items of index.html for the days ds of an aggregate
index_posts_of(agg, ds) ==
    [k \in 1..Len(ds) |-> index_post(agg.posts_by_date[ds[k]])]

\* the locals of a run at its end, for what it aggregated
run_of(agg, build_time) ==
    [build_time |-> build_time,
     posts_by_date |-> agg.posts_by_date,
     all_tags |-> agg.all_tags,
     index_posts |->
         index_posts_of(agg, sorted_desc(DOMAIN agg.posts_by_date))]

\* the pages of a run, each with its path
pages_of(run) ==
    {<<page_of(d), day_html(run, d)>> : d \in DOMAIN run.posts_by_date}
        \cup {<<"index.html", index_html(run)>>,
              <<"tags.html", tags_html(run)>>}
        \cup {<<tag_filename(run, i), tag_page_html(run, i)>> :
                 i \in 1..Len(run.all_tags)}

\* the pages of a run that finds the files of the content directory listed
\* as q
pages_listed(q) ==
    pages_of(run_of(collect(path_exists, q, date_now), loc.build_time))

\* C27: the pages a complete forced run leaves on disk are the pages of a
\* run on the same source files in any other listing order of the content
\* directory.
C27_ListingOrder ==
    (pc = "done" /\ loc.force) =>
        \A q \in listings_of(CONTENT_DIR) :
            \A pg \in pages_listed(q) :
                /\ pg[1] \in DOMAIN OUTPUT_DIR
                /\ OUTPUT_DIR[pg[1]].content = pg[2]

(***************************************************************************)
(* publish.generate_content_with_retry alone.  The service answers each    *)
(* call with a response (200), with a ClientError of code 429, 404 or 400, *)
(* or with an error that is not a ClientError (500).  h.calls is the list  *)
(* of the calls made, each with the model called and the answer.           *)
(***************************************************************************)

MaxModels == 2

MaxRetries == 1

ModelNames == {"gemini-2.5-pro", "gemini-2.5-flash", "gemini-1.5-flash"}

\* lists of one to MaxModels different models
ModelLists ==
    {s \in UNION {[1..n -> ModelNames] : n \in 1..MaxModels} :
        \A i, j \in 1..Len(s) : i # j => s[i] # s[j]}

\* failed_models: None or a set of models
FailedSets == {PyNone} \cup {[k |-> "set", v |-> S] : S \in SUBSET ModelNames}

\* the answers of the service
Codes == {200, 429, 404, 400, 500}

\* the answers that are raised as errors.ClientError
ClientCodes == {429, 404, 400}

\* a variant of skipped that skips no model
skipped_none(models, failed_models, i) == FALSE

\* failed_models and model in failed_models
skipped(models, failed_models, i) ==
    /\ failed_models # PyNone
    /\ models[i] \in failed_models.v

\* the first model from the i-th on that the loop does not skip,
\* Len(models) + 1 when there is none
RECURSIVE next_model(_, _, _)
next_model(models, failed_models, i) ==
    IF i > Len(models) THEN i
    ELSE IF skipped(models, failed_models, i)
         THEN next_model(models, failed_models, i + 1)
    ELSE i

\* failed_models after 'if failed_models is not None: failed_models.add(model)'
add_failed(failed_models, model) ==
    IF failed_models = PyNone THEN PyNone
    ELSE [failed_models EXCEPT !.v = @ \cup {model}]

\* a variant of gives_up that repeats the call after any client error
gives_up_late(code, attempt, retries) == attempt = retries

\* whether the loop over the attempts is left after a client error: by break
\* after a 404 or another code, by its end after the last 429
gives_up(code, attempt, retries) == code # 429 \/ attempt = retries

\* whether the client error is raised again: 'if attempt == retries' and
\* 'if model == models[-1]' under 'if e.code == 429'
reraises(models, i, code, attempt, retries) ==
    /\ code = 429
    /\ attempt = retries
    /\ models[i] = models[Len(models)]

\* the locals when the loop over the models reaches the next model to call
at_next(run, failed_models) ==
    [run EXCEPT !.failed_models = failed_models,
                !.i = next_model(run.models, failed_models, run.i + 1),
                !.attempt = 0]

\* the function falls off its end, returning None, or calls the next model
Fallen(run) ==
    /\ loc' = run
    /\ pc' = IF run.i > Len(run.models) THEN "returned" ELSE "try"
    /\ ret' = IF run.i > Len(run.models) THEN PyNone ELSE ret

\* what the function leaves alone
idle_retry ==
    <<now, date_now, CONTENT_DIR, TEMPLATE_DIR, script_path, LOOKUP_FILE,
      STATIC_DIR, path_exists, OUTPUT_DIR, output_static, arg, nedits, nruns,
      nkills>>

InitRetry ==
    /\ now = 1
    /\ date_now = Calendar[1]
    /\ CONTENT_DIR = <<>>
    /\ TEMPLATE_DIR = [t \in TemplateNames |-> 0]
    /\ script_path = 0
    /\ LOOKUP_FILE = [exists |-> FALSE, mtime |-> 0]
    /\ STATIC_DIR = NoAssets
    /\ path_exists = [p \in {"CONTENT_DIR", "STATIC_DIR"} |-> FALSE]
    /\ OUTPUT_DIR = EmptyDir
    /\ output_static = NoAssets
    /\ pc = "call"
    /\ arg \in {[op |-> "generate_content_with_retry", models |-> s,
                 retries |-> r, failed_models |-> f] :
                   s \in ModelLists, r \in 0..MaxRetries, f \in FailedSets}
    /\ loc = NoBuild
    /\ ret = NoCall
    /\ h = [calls |-> <<>>]
    /\ nedits = 0
    /\ nruns = 0
    /\ nkills = 0

\* the function is entered: the loop over the models skips the models
\* known to have failed
Enter ==
    /\ pc = "call"
    /\ arg.op = "generate_content_with_retry"
    /\ Fallen([models |-> arg.models, retries |-> arg.retries,
               failed_models |-> arg.failed_models,
               i |-> next_model(arg.models, arg.failed_models, 1),
               attempt |-> 0])
    /\ UNCHANGED <<idle_retry, h>>

\* the except clause on a ClientError of the given code
Caught(code) ==
    IF reraises(loc.models, loc.i, code, loc.attempt, loc.retries)
    THEN /\ pc' = "raised"
         /\ ret' = [k |-> "raise", v |-> code]
         /\ loc' = [loc EXCEPT !.failed_models =
                                   add_failed(@, loc.models[loc.i])]
    ELSE IF gives_up(code, loc.attempt, loc.retries)
         THEN Fallen(at_next(loc, add_failed(loc.failed_models,
                                             loc.models[loc.i])))
    ELSE /\ pc' = "try"
         /\ ret' = ret
         /\ loc' = [loc EXCEPT !.attempt = @ + 1]

\* client.models.generate_content(model=model, contents=contents) is
\* called and answers with code
Call(code) ==
    /\ pc = "try"
    /\ h' = [h EXCEPT !.calls = Append(@, [model |-> loc.models[loc.i],
                                           code |-> code])]
    /\ IF code = 200
       THEN /\ pc' = "returned"
            /\ ret' = [k |-> "response", v |-> loc.models[loc.i]]
            /\ loc' = loc
       ELSE IF code \in ClientCodes
            THEN Caught(code)
       ELSE /\ pc' = "raised"
            /\ ret' = [k |-> "raise", v |-> code]
            /\ loc' = loc
    /\ UNCHANGED idle_retry

NextRetry == Enter \/ \E code \in Codes : Call(code)

\* the function runs on: each call to the service is answered
SpecRetry == InitRetry /\ [][NextRetry]_vars /\ WF_vars(NextRetry)

\* C18: the function returns a response of one of the models, or raises; it
\* does not return without a response.
C18_ResponseOrRaise ==
    (pc = "returned" /\ arg.op = "generate_content_with_retry") =>
        /\ ret # PyNone
        /\ ret.k = "response"

\* the place in the list of the model of the k-th call
place(k) ==
    CHOOSE i \in 1..Len(arg.models) : arg.models[i] = h.calls[k].model

\* the calls made to the i-th model of the list
calls_to(i) == {k \in 1..Len(h.calls) : place(k) = i}

\* before the k-th call the i-th model was given up: it was skipped as
\* known to have failed, or answered a client error other than 429, or
\* answered 429 to the last of retries + 1 calls
given_up(i, k) ==
    \/ skipped(arg.models, arg.failed_models, i)
    \/ \E j \in calls_to(i) :
          /\ j < k
          /\ h.calls[j].code \in ClientCodes \ {429}
    \/ /\ Cardinality({j \in calls_to(i) : j < k}) = arg.retries + 1
       /\ \A j \in calls_to(i) : j < k => h.calls[j].code = 429

\* what holds of the calls made so far
calls_in_order ==
    /\ \A j, k \in 1..Len(h.calls) : j < k => place(j) <= place(k)
    /\ \A i \in 1..Len(arg.models) :
          Cardinality(calls_to(i)) <= arg.retries + 1
    /\ \A k \in 1..(Len(h.calls) - 1) :
          /\ h.calls[k].code # 200
          /\ place(k + 1) = place(k) => h.calls[k].code = 429
    /\ \A k \in 1..Len(h.calls) :
          \A i \in 1..(place(k) - 1) : given_up(i, k)
    /\ Len(h.calls) <= Len(arg.models) * (arg.retries + 1)

\* the function has returned or raised
ended == pc \in {"returned", "raised"}

\* C19: the function ends; the models are called in the order of the list,
\* each at most retries + 1 times and again only after a 429, a later model
\* only once every earlier one has been given up, none after a response,
\* at most len(models) * (retries + 1) calls in all.
C19_BoundedFallThrough ==
    /\ [](arg.op = "generate_content_with_retry" => calls_in_order)
    /\ [][ended => (ended' /\ h' = h)]_vars
    /\ <>ended

\* the first model has answered 429 to retries + 1 calls, the second has
\* answered the next call with a response, and the function has returned it
C19_Witness ==
    /\ pc = "returned"
    /\ arg.op = "generate_content_with_retry"
    /\ arg.retries = MaxRetries
    /\ Len(h.calls) = arg.retries + 2
    /\ \A k \in 1..(arg.retries + 1) :
          place(k) = 1 /\ h.calls[k].code = 429
    /\ place(arg.retries + 2) = 2
    /\ ret = [k |-> "response", v |-> arg.models[2]]

(***************************************************************************)
(* A sequence of calls of generate_content_with_retry that share one       *)
(* failed_models set, as the loop over the posts of reprocess.py makes     *)
(* them: the set starts empty and each call is handed the set the calls    *)
(* before it have left.  h.from is the number of calls to the service made *)
(* before the current call of the function, h.ncalls the calls of the      *)
(* function so far.                                                        *)
(***************************************************************************)

\* calls of the function in the sequence
MaxCalls == 2

\* failed_models = set()
NoFailed == [k |-> "set", v |-> {}]

\* the shared set as it is now
failed_now ==
    IF pc = "call" THEN arg.failed_models.v ELSE loc.failed_models.v

InitFailed ==
    /\ now = 1
    /\ date_now = Calendar[1]
    /\ CONTENT_DIR = <<>>
    /\ TEMPLATE_DIR = [t \in TemplateNames |-> 0]
    /\ script_path = 0
    /\ LOOKUP_FILE = [exists |-> FALSE, mtime |-> 0]
    /\ STATIC_DIR = NoAssets
    /\ path_exists = [p \in {"CONTENT_DIR", "STATIC_DIR"} |-> FALSE]
    /\ OUTPUT_DIR = EmptyDir
    /\ output_static = NoAssets
    /\ pc = "call"
    /\ arg \in {[op |-> "generate_content_with_retry", models |-> s,
                 retries |-> r, failed_models |-> NoFailed] :
                   s \in ModelLists, r \in 0..MaxRetries}
    /\ loc = NoBuild
    /\ ret = NoCall
    /\ h = [calls |-> <<>>, from |-> 0, ncalls |-> 1]
    /\ nedits = 0
    /\ nruns = 0
    /\ nkills = 0

\* the caller goes on after the function has returned or raised: the next
\* call is handed the same set
CallAgain(models, retries) ==
    /\ pc \in {"returned", "raised"}
    /\ h.ncalls < MaxCalls
    /\ arg' = [op |-> "generate_content_with_retry", models |-> models,
               retries |-> retries, failed_models |-> loc.failed_models]
    /\ h' = [h EXCEPT !.from = Len(h.calls), !.ncalls = @ + 1]
    /\ pc' = "call"
    /\ UNCHANGED <<now, date_now, CONTENT_DIR, TEMPLATE_DIR, script_path,
                   LOOKUP_FILE, STATIC_DIR, path_exists, OUTPUT_DIR,
                   output_static, loc, ret, nedits, nruns, nkills>>

NextFailed ==
    \/ Enter
    \/ \E code \in Codes : Call(code)
    \/ \E s \in ModelLists, r \in 0..MaxRetries : CallAgain(s, r)

SpecFailed == InitFailed /\ [][NextFailed]_vars /\ WF_vars(NextFailed)

\* the step calls the service
sends == Len(h'.calls) = Len(h.calls) + 1

\* the call to the service the step makes
sent == h'.calls[Len(h'.calls)]

\* the models the step adds to the shared set
added == failed_now' \ failed_now

\* the step is the answer that exhausts the retries of a model after 429,
\* or a 404, or another client error
fails ==
    /\ sends
    /\ sent.code \in ClientCodes
    /\ sent.code = 429 => loc.attempt = loc.retries

\* the models that have answered with a response
succeeded == {h.calls[k].model : k \in {j \in 1..Len(h.calls) :
                                           h.calls[j].code = 200}}

\* a step adds to the set the model that fails in it, and nothing else
adds_the_failed == added = IF fails THEN {sent.model} ELSE {}

\* the set only grows
keeps_the_failed == failed_now \subseteq failed_now'

\* no call is sent to a model of the set
spares_the_failed == sends => sent.model \notin failed_now

\* C28 as amended: over the calls that share one failed_models set, a step
\* adds a model to the set exactly when the model answers 429 to the last
\* of its retries + 1 calls or answers 404 or another client error, so an
\* answer with a response adds nothing; no model leaves the set; and no
\* call is sent to a model that is in the set.
C28_FailedModels ==
    /\ [][adds_the_failed]_vars
    /\ [][keeps_the_failed]_vars
    /\ [][spares_the_failed]_vars

\* C28 as stated: the above, and no model that has answered with a response
\* is in the set.
C28_SucceededNeverAdded ==
    /\ C28_FailedModels
    /\ [](failed_now \cap succeeded = {})

\* the second call of the function was handed a set that holds its first
\* model, sent nothing to it, and has a response of its second model
C28_Witness ==
    /\ h.ncalls = 2
    /\ pc = "returned"
    /\ Len(arg.models) = 2
    /\ arg.models[1] \in arg.failed_models.v
    /\ Len(h.calls) = h.from + 1
    /\ h.calls[Len(h.calls)] = [model |-> arg.models[2], code |-> 200]
    /\ ret = [k |-> "response", v |-> arg.models[2]]

(***************************************************************************)
(* parse_post: the links of the Module bullets.  The pattern is            *)
(*   ^(\s*[-*+]\s+)([Mm]odule\b.*?(\d+(?:\.\d+)?))\s*$   with re.MULTILINE *)
(* \s matches a newline as well, '.' does not; '$' matches at the end of   *)
(* the text and before a newline.                                          *)
(***************************************************************************)

\* the first position from i on that holds no white space, Len(s) + 1 when
\* there is none
RECURSIVE ws_end(_, _)
ws_end(s, i) ==
    IF i <= Len(s) /\ IsSpace(ch(s, i)) THEN ws_end(s, i + 1) ELSE i

\* the first position from i on that holds no digit
RECURSIVE digits_end(_, _)
digits_end(s, i) ==
    IF i <= Len(s) /\ IsDigit(ch(s, i)) THEN digits_end(s, i + 1) ELSE i

\* where '\s*$' ends when tried at i: the end of the text when only white
\* space follows, else the last newline of the white space that follows, 0
\* when there is none; w is ws_end(s, i)
tail_to(s, i, w) ==
    IF w > Len(s) THEN w
    ELSE IF {n \in i..(w - 1) : ch(s, n) = "\n"} = {} THEN 0
    ELSE SetMax({n \in i..(w - 1) : ch(s, n) = "\n"})

tail_end(s, i) == tail_to(s, i, ws_end(s, i))

\* where '(\d+(?:\.\d+)?)' ends when tried at q with the rest of the
\* pattern after it, 0 when it does not match: d is digits_end(s, q); the
\* longer number is tried first
number_to(s, q, d) ==
    IF d = q THEN 0
    ELSE IF /\ ch(s, d) = "."
            /\ IsDigit(ch(s, d + 1))
            /\ tail_end(s, digits_end(s, d + 1)) > 0
         THEN digits_end(s, d + 1)
    ELSE IF tail_end(s, d) > 0 THEN d
    ELSE 0

number_end(s, q) == number_to(s, q, digits_end(s, q))

\* '.*?' from position c on: the first position of the line from c on at
\* which the number and the rest match, 0 when there is none
RECURSIVE number_start(_, _)
number_start(s, c) ==
    IF c > Len(s) THEN 0
    ELSE IF number_end(s, c) > 0 THEN c
    ELSE IF ch(s, c) = "\n" THEN 0
    ELSE number_start(s, c + 1)

\* '[Mm]odule\b' at position c
module_at(s, c) ==
    /\ slice(s, c, c + 5) \in {"Module", "module"}
    /\ ~IsWord(ch(s, c + 6))

\* where group 2 starts when the pattern is tried at p, 0 when group 1 or
\* the word does not match: b is the place of the bullet character
content_from(s, b) ==
    IF /\ ch(s, b) \in {"-", "*", "+"}
       /\ IsSpace(ch(s, b + 1))
       /\ module_at(s, ws_end(s, b + 1))
    THEN ws_end(s, b + 1)
    ELSE 0

content_start(s, p) == content_from(s, ws_end(s, p))

\* the match of the pattern tried at p: the starts of groups 2 and 3, the
\* ends of group 3 and of the match (both exclusive); c and q are the
\* starts of groups 2 and 3
module_match_of(s, c, q) ==
    IF c = 0 \/ q = 0 THEN [found |-> FALSE]
    ELSE [found |-> TRUE, content |-> c, number |-> q,
          number_end |-> number_end(s, q),
          end |-> tail_end(s, number_end(s, q))]

module_match_from(s, c) ==
    module_match_of(s, c, IF c = 0 THEN 0 ELSE number_start(s, c + 6))

module_match(s, p) == module_match_from(s, content_start(s, p))

\* replace_link: what the match found at p is replaced with, and the number
\* a warning is printed for, "" when none is
replace_link(s, p, found, lookups) ==
    IF slice(s, found.number, found.number_end - 1) \in DOMAIN lookups
    THEN [text |-> slice(s, p, found.content - 1) \o "["
                       \o slice(s, found.content, found.number_end - 1)
                       \o "]("
                       \o lookups[slice(s, found.number,
                                        found.number_end - 1)]
                       \o ")",
          warning |-> ""]
    ELSE [text |-> slice(s, p, found.end - 1),
          warning |-> slice(s, found.number, found.number_end - 1)]

\* ^ at position p
at_line_start(s, p) == p = 1 \/ ch(s, p - 1) = "\n"

RECURSIVE sub_links(_, _, _, _)

\* the step of pattern.sub at p given the match tried there
sub_step(s, p, lookups, found, done) ==
    IF at_line_start(s, p) /\ found.found
    THEN sub_links(s, found.end, lookups,
                   [text |-> done.text
                                 \o replace_link(s, p, found, lookups).text,
                    warnings |->
                        IF replace_link(s, p, found, lookups).warning = ""
                        THEN done.warnings
                        ELSE Append(done.warnings,
                                    replace_link(s, p, found,
                                                 lookups).warning)])
    ELSE sub_links(s, p + 1, lookups,
                   [done EXCEPT !.text = @ \o ch(s, p)])

\* pattern.sub(replace_link, body) from position p on
sub_links(s, p, lookups, done) ==
    IF p > Len(s) THEN done
    ELSE sub_step(s, p, lookups, module_match(s, p), done)

\* the pass: the body after it, and the numbers warned about
link_modules(body, lookups) ==
    IF DOMAIN lookups = {} THEN [text |-> body, warnings |-> <<>>]
    ELSE sub_links(body, 1, lookups, [text |-> "", warnings |-> <<>>])

(***************************************************************************)
(* The pass alone: one call on a body of lines and a table.  A line that   *)
(* is a Module bullet comes with its parts: the bullet prefix, the content *)
(* up to the number, the number, and what follows the number on the line.  *)
(* Elsewhere parse_post is modelled with an empty table.                   *)
(***************************************************************************)

MaxLinkLines == 3

PlainLine(text) == [text |-> text, number |-> ""]

ModuleLine(prefix, content, number, rest) ==
    [text |-> prefix \o content \o rest, number |-> number,
     prefix |-> prefix, content |-> content]

LinkLines ==
    {ModuleLine("- ", "Module 5", "5", "\n"),
     ModuleLine("* ", "module 2 lesson 1.2", "1.2", "\n"),
     ModuleLine("- ", "Module 7", "7", "  \n"),
     PlainLine("\n"),
     PlainLine("next\n"),
     PlainLine("- other 5\n"),
     PlainLine("Module 5\n")}

LinkBodies == UNION {[1..n -> LinkLines] : n \in 0..MaxLinkLines}

\* load_lookups: the tables the lookup file may give
LookupTables ==
    {EmptyDict,
     [x \in {"5"} |-> "u5"],
     [x \in {"5", "1.2"} |-> IF x = "5" THEN "u5" ELSE "u12"]}

\* the text of lines from the k-th on
RECURSIVE lines_text(_, _)
lines_text(lines, k) ==
    IF k > Len(lines) THEN ""
    ELSE lines[k].text \o lines_text(lines, k + 1)

InitLinks ==
    /\ IdleBuild
    /\ date_now = Calendar[1]
    /\ OUTPUT_DIR = EmptyDir
    /\ pc = "call"
    /\ arg \in {[op |-> "link_modules", lines |-> b, lookups |-> t] :
                   b \in LinkBodies, t \in LookupTables}
    /\ ret = NoCall

\* the pass over the body arg.lines with the table arg.lookups
LinkModules ==
    /\ pc = "call"
    /\ arg.op = "link_modules"
    /\ ret' = link_modules(lines_text(arg.lines, 1), arg.lookups)
    /\ pc' = "returned"
    /\ UNCHANGED <<idle_build, OUTPUT_DIR, arg>>

NextLinks == LinkModules

SpecLinks == InitLinks /\ [][NextLinks]_vars

\* the line as the claim has it after the pass: a Module bullet whose
\* number is a key is a link to the value, any other line is as it was
line_wanted(line, lookups) ==
    IF line.number # "" /\ line.number \in DOMAIN lookups
    THEN line.prefix \o "[" \o line.content \o "]("
             \o lookups[line.number] \o ")\n"
    ELSE line.text

RECURSIVE body_wanted(_, _, _)
body_wanted(lines, k, lookups) ==
    IF k > Len(lines) THEN ""
    ELSE line_wanted(lines[k], lookups) \o body_wanted(lines, k + 1, lookups)

\* the numbers of the Module bullets that are no key, in order
RECURSIVE warnings_wanted(_, _, _)
warnings_wanted(lines, k, lookups) ==
    IF k > Len(lines) THEN <<>>
    ELSE (IF lines[k].number # "" /\ lines[k].number \notin DOMAIN lookups
          THEN <<lines[k].number>> ELSE <<>>)
             \o warnings_wanted(lines, k + 1, lookups)

\* C24: with a table, each Module bullet whose number is a key becomes a
\* link to the value, each one whose number is no key is warned about and
\* left as it was, and every other line is left as it was (white space at
\* the end of the body aside).
C24_ModuleLinks ==
    (pc = "returned" /\ arg.op = "link_modules" /\ DOMAIN arg.lookups # {}) =>
        /\ rstrip(ret.text) = rstrip(body_wanted(arg.lines, 1, arg.lookups))
        /\ ret.warnings = warnings_wanted(arg.lines, 1, arg.lookups)

(***************************************************************************)
(* publish.process_image: the post file.  The transcription, its date and  *)
(* the decorated body are inputs here; CONTENT_DIR is content/posts, where *)
(* the post is written, now counts the seconds of the local clock,         *)
(* h.seconds holds the seconds of the calls and h.apart says that no two   *)
(* calls were made in the same second.                                     *)
(* build(), which process_image runs last, writes under the output         *)
(* directory only.                                                         *)
(***************************************************************************)

\* calls of process_image
MaxPublishes == 3

\* days and seconds the clock can go on
MaxDays == 1

MaxSeconds == 1

\* the seconds of a day
DaySeconds == 86400

PublishDays == <<"2025-01-01", "2025-01-02", "2025-01-03">>

\* the base names of the images
BaseNames == {"scan", "page"}

\* the dates of the first timestamp of a transcription, "" when it has none
DetectedDates == {"", "2025-01-01", "2025-01-02"}

FinalBodies == {"walk", "rain"}

\* datetime.date.today().isoformat() at t
today_at(t) == PublishDays[(t \div DaySeconds) + 1]

\* datetime.datetime.now().strftime("%H%M%S") at t
strftime_hms(t) ==
    fmt2((t % DaySeconds) \div 3600) \o fmt2(((t % DaySeconds) \div 60) % 60)
        \o fmt2(t % 60)

\* post_date.isoformat(): the date of the first timestamp, or today
post_date_str(detected, t) == IF detected = "" THEN today_at(t) ELSE detected

\* os.path.exists(post_path)
post_exists(dir, name) == \E i \in 1..Len(dir) : dir[i].name = name

\* the name of the post: the time is appended when the name is taken
post_filename(dir, date, base_name, t) ==
    IF post_exists(dir, date \o "-" \o base_name \o ".md")
    THEN date \o "-" \o base_name \o "-" \o strftime_hms(t) \o ".md"
    ELSE date \o "-" \o base_name \o ".md"

\* str(is_future).lower(): post_date > datetime.date.today()
future_str(date, t) == IF StrLess(today_at(t), date) THEN "true" ELSE "false"

\* markdown_content
markdown_content(date, base_name, final_body, t) ==
    "\n---\ndate: " \o date \o "\nimage: static/images/" \o date \o "-"
        \o base_name \o ".webp\nfuture: " \o future_str(date, t)
        \o "\n---\n\n" \o final_body \o "\n"

\* open(post_path, 'w') and write
write_post(dir, name, doc, t) ==
    IF post_exists(dir, name)
    THEN [i \in 1..Len(dir) |->
             IF dir[i].name = name
             THEN [name |-> name, mtime |-> t, doc |-> doc] ELSE dir[i]]
    ELSE Append(dir, [name |-> name, mtime |-> t, doc |-> doc])

InitPublish ==
    /\ now = 0
    /\ date_now = Calendar[1]
    /\ CONTENT_DIR = <<>>
    /\ TEMPLATE_DIR = [t \in TemplateNames |-> 0]
    /\ script_path = 0
    /\ LOOKUP_FILE = [exists |-> FALSE, mtime |-> 0]
    /\ STATIC_DIR = NoAssets
    /\ path_exists = [p \in {"CONTENT_DIR", "STATIC_DIR"} |-> FALSE]
    /\ OUTPUT_DIR = EmptyDir
    /\ output_static = NoAssets
    /\ pc = "idle"
    /\ arg = NoCall
    /\ loc = NoBuild
    /\ ret = NoCall
    /\ h = [publishes |-> 0, seconds |-> {}, apart |-> TRUE]
    /\ nedits = 0
    /\ nruns = 0
    /\ nkills = 0

\* what process_image leaves alone
idle_publish ==
    <<date_now, TEMPLATE_DIR, script_path, LOOKUP_FILE, STATIC_DIR,
      path_exists, OUTPUT_DIR, output_static, pc, loc, nedits, nruns,
      nkills>>

\* process_image(image_path): it returns at once when the image is not
\* found or the API key is not set
ProcessImage(found, api_key, base_name, detected, final_body) ==
    /\ h.publishes < MaxPublishes
    /\ h' = [h EXCEPT !.publishes = @ + 1, !.seconds = @ \cup {now},
                      !.apart = @ /\ now \notin h.seconds]
    /\ arg' = [op |-> "process_image", found |-> found, api_key |-> api_key,
               base_name |-> base_name, detected |-> detected,
               final_body |-> final_body]
    /\ IF found /\ api_key
       THEN /\ ret' = [op |-> "process_image",
                       post_filename |->
                           post_filename(CONTENT_DIR,
                                         post_date_str(detected, now),
                                         base_name, now)]
            /\ CONTENT_DIR' =
                   write_post(CONTENT_DIR,
                              post_filename(CONTENT_DIR,
                                            post_date_str(detected, now),
                                            base_name, now),
                              markdown_content(post_date_str(detected, now),
                                               base_name, final_body, now),
                              now)
       ELSE /\ ret' = [op |-> "process_image", post_filename |-> ""]
            /\ CONTENT_DIR' = CONTENT_DIR
    /\ UNCHANGED <<now, idle_publish>>

\* the clock goes on, by a second or by a day
ClockOn(step) ==
    /\ step = 1 => (now % DaySeconds) < MaxSeconds
    /\ step = DaySeconds => (now \div DaySeconds) < MaxDays
    /\ now' = now + step
    /\ UNCHANGED <<idle_publish, CONTENT_DIR, arg, ret, h>>

NextPublish ==
    \/ \E found \in BOOLEAN, api_key \in BOOLEAN, base_name \in BaseNames,
          detected \in DetectedDates, final_body \in FinalBodies :
              ProcessImage(found, api_key, base_name, detected, final_body)
    \/ \E step \in {1, DaySeconds} : ClockOn(step)

SpecPublish == InitPublish /\ [][NextPublish]_vars

\* the step is a call of process_image that gets as far as the post, and
\* no two calls so far were made in the same second
publishes ==
    /\ h'.publishes = h.publishes + 1
    /\ h'.apart
    /\ arg'.found
    /\ arg'.api_key

\* C29: a call of process_image that gets as far as the post, no two calls
\* in the same second, creates one new file in content/posts, and every
\* file that was there keeps its name and its content.
C29_NoOverwrite ==
    [][publishes =>
          /\ Len(CONTENT_DIR') = Len(CONTENT_DIR) + 1
          /\ \A i \in 1..Len(CONTENT_DIR) :
                /\ CONTENT_DIR'[i].name = CONTENT_DIR[i].name
                /\ CONTENT_DIR'[i].doc = CONTENT_DIR[i].doc]_vars

(***************************************************************************)
(* The body of a post from a transcription: publish.process_image and      *)
(* reprocess.reprocess.  The transcription is a list of lines.  The        *)
(* services are taken as they answer without a network: the geocoder knows *)
(* the places of Gazetteer, the weather is "N/A", and the almanac is a     *)
(* line that names the date and the place it was asked about.              *)
(***************************************************************************)

\* lines in a transcription
MaxTextLines == 3

\* ts_pattern of publish.process_image and of reprocess.reprocess, as
\* written
PublishTsPattern == ".*?\\[\\[\\s*(\\d{4}[/ ]\\d{2}[/ ]\\d{2})"

ReprocessTsPattern == ".*?\\[[\\\\\\]\\s*(\\d{4}[/ ]\\d{2}[/ ]\\d{2})"

\* whether the parentheses of a pattern balance from position i on, depth
\* groups being open; cls is 0 outside a character class, 1 at its first
\* character, 2 further in; a backslash escapes the next character
RECURSIVE parens_ok(_, _, _, _)
parens_ok(p, i, depth, cls) ==
    IF i > Len(p) THEN depth = 0 /\ cls = 0
    ELSE IF ch(p, i) = "\\" THEN parens_ok(p, i + 2, depth,
                                           IF cls = 0 THEN 0 ELSE 2)
    ELSE IF cls = 1 THEN parens_ok(p, i + 1, depth, 2)
    ELSE IF cls = 2
         THEN parens_ok(p, i + 1, depth, IF ch(p, i) = "]" THEN 0 ELSE 2)
    ELSE IF ch(p, i) = "[" THEN parens_ok(p, i + 1, depth, 1)
    ELSE IF ch(p, i) = "(" THEN parens_ok(p, i + 1, depth + 1, 0)
    ELSE IF ch(p, i) = ")"
         THEN depth > 0 /\ parens_ok(p, i + 1, depth - 1, 0)
    ELSE parens_ok(p, i + 1, depth, 0)

\* re.compile(pattern) returns: it raises re.error on unbalanced
\* parentheses or an open character class
compiles(pattern) == parens_ok(pattern, 1, 0, 0)

\* the class [\\\]\s*\d{4}[/ ] of the patterns of reprocess
LocalClass(c) ==
    IsSpace(c) \/ IsDigit(c) \/ c \in {"\\", "]", "*", "{", "}", "[", "/"}

\* where the date of a token that begins at q ends, 0 when no token begins
\* there: \[\[\s*\d{4}[/ ]\d{2}[/ ]\d{2} in publish, and
\* \[[\\\]\s*\d{4}[/ ]\d{2}[/ ]\d{2} in reprocess
token_date_end(s, q, local) ==
    IF local
    THEN (IF /\ ch(s, q) = "["
             /\ LocalClass(ch(s, q + 1))
             /\ digits_at(s, q + 2, 2)
             /\ ch(s, q + 4) \in {"/", " "}
             /\ digits_at(s, q + 5, 2)
          THEN q + 6 ELSE 0)
    ELSE IF /\ slice(s, q, q + 1) = "[["
            /\ date_at(s, q + 2 + spaces_at(s, q + 2))
         THEN q + 11 + spaces_at(s, q + 2) ELSE 0

\* the first position of s where a token begins, 0 when there is none
token_start(s, local) ==
    MinOrZero({q \in 1..Len(s) : token_date_end(s, q, local) > 0})

\* ts_pattern.match(line.strip())
starts_block(line, local) == token_start(strip(line), local) > 0

\* ts_split_pattern.match(first_line): where the token begins and where its
\* ']]' ends, 0 and 0 when the pattern does not match
split_match_at(s, q, local) ==
    IF q = 0 \/ find(s, "]]", token_date_end(s, q, local) + 1) = 0
    THEN [q |-> 0, e |-> 0]
    ELSE [q |-> q,
          e |-> find(s, "]]", token_date_end(s, q, local) + 1) + 1]

split_match(s, local) == split_match_at(s, token_start(s, local), local)

\* re.search(r'(\d{4})[/ ](\d{2})[/ ](\d{2})', ts_full): the 10 characters,
\* "" when there is no match
date_captured(ts_full) ==
    slice(ts_full, MinOrZero({i \in 1..Len(ts_full) : date_at(ts_full, i)}),
          MinOrZero({i \in 1..Len(ts_full) : date_at(ts_full, i)}) + 9)

\* date_obj, as year, month and day: the date of the token, or today
date_obj(captured, today) ==
    IF captured = ""
    THEN [y |-> int_of(slice(today, 1, 4)), m |-> int_of(slice(today, 6, 7)),
          d |-> int_of(slice(today, 9, 10))]
    ELSE [y |-> int_of(slice(captured, 1, 4)),
          m |-> int_of(slice(captured, 6, 7)),
          d |-> int_of(slice(captured, 9, 10))]

\* date_obj.isoformat()
fmt4(n) == fmt2(n \div 100) \o fmt2(n % 100)

isoformat(date) == fmt4(date.y) \o "-" \o fmt2(date.m) \o "-" \o fmt2(date.d)

DayNames ==
    <<"Sunday", "Monday", "Tuesday", "Wednesday", "Thursday", "Friday",
      "Saturday">>

MonthOffsets == <<0, 3, 2, 5, 0, 3, 5, 1, 4, 6, 2, 4>>

\* the day of the week of day d of month m, y being the year less one for
\* January and February
day_index(y, m, d) ==
    (y + (y \div 4) - (y \div 100) + (y \div 400) + MonthOffsets[m] + d) % 7

\* date_obj.strftime('%A')
strftime_A(date) ==
    DayNames[day_index(IF date.m < 3 THEN date.y - 1 ELSE date.y,
                       date.m, date.d) + 1]

\* DEFAULT_LAT, DEFAULT_LON, DEFAULT_LOCATION_NAME
DefaultPlace ==
    [lat |-> "43.4254", lon |-> "-80.5112",
     loc_name |-> "Kitchener, ON, Canada"]

\* the places the geocoder finds
Gazetteer == [n \in {"Oslo"} |-> [lat |-> "59.91", lon |-> "10.75"]]

\* get_coordinates_from_name(place_name)
get_coordinates_from_name(place_name) ==
    IF place_name \in DOMAIN Gazetteer THEN Gazetteer[place_name] ELSE PyNone

\* get_weather_data(dt, lat, lon): temperature and condition
get_weather_data(dt, lat, lon) == [temp |-> "N/A", condition |-> "N/A"]

\* get_astro_data(date_str, lat, lon)
get_astro_data(date_str, lat, lon) ==
    "\n  * Sunrise: " \o date_str \o " at " \o lat \o " " \o lon \o "\n"

\* is_location_line(text), for lines of ASCII characters: the third prefix
\* of the code begins with U+2022
is_location_line(text) ==
    \/ startswith(strip(text), "* Location:")
    \/ startswith(strip(text), "- Location:")

\* is_bullet(text), for lines of ASCII characters
is_bullet(text) ==
    \/ startswith(strip(text), "*")
    \/ startswith(strip(text), "-")

\* text.strip().split(':', 1)[1].strip()
loc_val(text) ==
    strip(slice(strip(text), find(strip(text), ":", 1) + 1,
                Len(strip(text))))

\* the place after a location line that names val
moved_to(spot, val, coords) ==
    IF val = "" THEN spot
    ELSE IF coords = PyNone THEN [spot EXCEPT !.loc_name = val]
    ELSE [lat |-> coords.lat, lon |-> coords.lon, loc_name |-> val]

\* the place after a line
place_after(spot, line) ==
    IF is_location_line(line)
    THEN moved_to(spot, loc_val(line),
                  get_coordinates_from_name(loc_val(line)))
    ELSE spot

\* the place after the lines from the i-th on
RECURSIVE place_of(_, _, _)
place_of(spot, lines, i) ==
    IF i > Len(lines) THEN spot
    ELSE place_of(place_after(spot, lines[i]), lines, i + 1)

\* lines_to_keep: the lines from the i-th on that are no location lines
RECURSIVE lines_to_keep(_, _)
lines_to_keep(lines, i) ==
    IF i > Len(lines) THEN <<>>
    ELSE (IF is_location_line(lines[i]) THEN <<>> ELSE <<lines[i]>>)
             \o lines_to_keep(lines, i + 1)

\* the bullets among the lines kept, stripped
RECURSIVE bullets_of(_)
bullets_of(lines) ==
    IF Len(lines) = 0 THEN <<>>
    ELSE (IF is_bullet(Head(lines)) THEN <<strip(Head(lines))>> ELSE <<>>)
             \o bullets_of(Tail(lines))

\* the lines kept that are no bullets and not blank
RECURSIVE remainder_of(_)
remainder_of(lines) ==
    IF Len(lines) = 0 THEN <<>>
    ELSE (IF ~is_bullet(Head(lines)) /\ strip(Head(lines)) # ""
          THEN <<Head(lines)>> ELSE <<>>)
             \o remainder_of(Tail(lines))

\* "  " + b for b in bullets
RECURSIVE indented(_)
indented(bullets) ==
    IF Len(bullets) = 0 THEN <<>>
    ELSE <<"  " \o Head(bullets)>> \o indented(Tail(bullets))

\* sep.join(items)
RECURSIVE join(_, _)
join(items, sep) ==
    IF Len(items) = 0 THEN ""
    ELSE IF Len(items) = 1 THEN items[1]
    ELSE items[1] \o sep \o join(Tail(items), sep)

\* re.search of the date and time in ts_full: where it begins, 0 when
\* there is none; the separators of the date are '/' in publish and
\* '/' or ' ' in reprocess
dt_match_at(ts_full, i, local) ==
    /\ date_at(ts_full, i)
    /\ local \/ (ch(ts_full, i + 4) = "/" /\ ch(ts_full, i + 7) = "/")
    /\ spaces_at(ts_full, i + 10) > 0
    /\ hms_at(ts_full, i + 10 + spaces_at(ts_full, i + 10))

dt_match(ts_full, local) ==
    MinOrZero({i \in 1..Len(ts_full) : dt_match_at(ts_full, i, local)})

\* whether datetime.datetime(y, m, d, H, M, S) raises ValueError for the
\* match at i
bad_datetime(s, i) ==
    \/ ~valid_date(int_of(slice(s, i, i + 3)), int_of(slice(s, i + 5, i + 6)),
                   int_of(slice(s, i + 8, i + 9)))
    \/ int_of(slice(s, i + 10 + spaces_at(s, i + 10),
                    i + 11 + spaces_at(s, i + 10))) > 23
    \/ int_of(slice(s, i + 13 + spaces_at(s, i + 10),
                    i + 14 + spaces_at(s, i + 10))) > 59
    \/ int_of(slice(s, i + 16 + spaces_at(s, i + 10),
                    i + 17 + spaces_at(s, i + 10))) > 59

\* weather_block
weather_block(matched, spot, weather) ==
    IF matched
    THEN "  * Location: " \o spot.loc_name \o "\n  * Temperature: "
             \o weather.temp \o "\n  * Weather Condition: "
             \o weather.condition \o "\n"
    ELSE ""

\* meta_data
meta_data(ts_full, date, spot, local) ==
    weather_block(dt_match(ts_full, local) > 0, spot,
                  get_weather_data(ts_full, spot.lat, spot.lon))
        \o strip(get_astro_data(isoformat(date), spot.lat, spot.lon))
        \o "\n  * Day of Week: " \o strftime_A(date)

\* list_content
list_content(meta, bullets) ==
    IF Len(bullets) = 0 THEN meta
    ELSE (IF meta # "" /\ ~endswith(meta, "\n") THEN meta \o "\n" ELSE meta)
             \o join(indented(bullets), "\n")

\* final_section
final_section(prefix, ts_full, list, remainder) ==
    prefix \o ts_full \o "\n\n" \o strip(list)
        \o (IF Len(remainder) = 0 THEN ""
            ELSE "\n\n" \o join(remainder, "\n"))

\* the trailing text as a line of the block, nothing when it is empty
as_lines(trailing_text) ==
    IF trailing_text = "" THEN <<>> ELSE <<trailing_text>>

\* the trailing text once the location is taken from it
kept_trailing(trailing_text) ==
    IF is_location_line(trailing_text) THEN "" ELSE trailing_text

\* a block whose first line holds the token ts_full between prefix and
\* trailing_text
decorated(prefix, ts_full, trailing_text, block_lines, date, spot, local) ==
    final_section(
        prefix, ts_full,
        list_content(
            meta_data(ts_full, date, spot, local),
            bullets_of(as_lines(kept_trailing(trailing_text))
                           \o lines_to_keep(block_lines, 2))),
        (IF kept_trailing(trailing_text) # ""
            /\ ~is_bullet(kept_trailing(trailing_text))
         THEN <<kept_trailing(trailing_text)>> ELSE <<>>)
            \o remainder_of(lines_to_keep(block_lines, 2)))

\* whether flush_block raises ValueError: datetime.date or
\* datetime.datetime refuses the numbers of the token
flush_raises(ts_full, local) ==
    \/ /\ date_captured(ts_full) # ""
       /\ ~strptime_ok(date_captured(ts_full))
    \/ /\ dt_match(ts_full, local) > 0
       /\ bad_datetime(ts_full, dt_match(ts_full, local))

\* flush_block for a first line that matches ts_split_pattern at mt
flush_matched(first_line, mt, block_lines, today, local) ==
    decorated(slice(first_line, 1, mt.q - 1), slice(first_line, mt.q, mt.e),
              strip(slice(first_line, mt.e + 1, Len(first_line))),
              block_lines,
              date_obj(date_captured(slice(first_line, mt.q, mt.e)), today),
              place_of(place_after(DefaultPlace,
                           strip(slice(first_line, mt.e + 1,
                                       Len(first_line)))),
                       block_lines, 2),
              local)

\* flush_block(block_lines) and flush_block_local(block_lines): the text
\* of the block, and whether an exception is raised
flush_with(first_line, mt, block_lines, today, local) ==
    IF mt.q = 0
    THEN [raises |-> FALSE, text |-> join(block_lines, "\n")]
    ELSE IF flush_raises(slice(first_line, mt.q, mt.e), local)
    THEN [raises |-> TRUE, text |-> ""]
    ELSE [raises |-> FALSE,
          text |-> flush_matched(first_line, mt, block_lines, today, local)]

flush_block(block_lines, today, local) ==
    IF Len(block_lines) = 0 THEN [raises |-> FALSE, text |-> ""]
    ELSE flush_with(strip(block_lines[1]),
                    split_match(strip(block_lines[1]), local),
                    block_lines, today, local)

\* the blocks flushed so far, with the block that was current flushed too
flushed(acc, current, today, local) ==
    IF Len(current) = 0 THEN acc
    ELSE [raises |-> acc.raises \/ flush_block(current, today, local).raises,
          blocks |-> Append(acc.blocks,
                            flush_block(current, today, local).text)]

\* the loop over the lines from the i-th on: a line that holds a token
\* begins a block
RECURSIVE blocks_from(_, _, _, _, _, _)
blocks_from(lines, i, current, acc, today, local) ==
    IF acc.raises THEN acc
    ELSE IF i > Len(lines) THEN flushed(acc, current, today, local)
    ELSE IF starts_block(lines[i], local)
         THEN blocks_from(lines, i + 1, <<lines[i]>>,
                          flushed(acc, current, today, local), today, local)
    ELSE blocks_from(lines, i + 1, Append(current, lines[i]), acc, today,
                     local)

\* final_body, and whether an exception was raised on the way to it
final_body_of(acc) ==
    IF acc.raises THEN [raises |-> TRUE, final_body |-> ""]
    ELSE [raises |-> FALSE, final_body |-> join(acc.blocks, "\n\n")]

\* from the compilation of ts_pattern to final_body
body_with(pattern, lines, today, local) ==
    IF ~compiles(pattern) THEN [raises |-> TRUE, final_body |-> ""]
    ELSE final_body_of(blocks_from(lines, 1, <<>>,
                                   [raises |-> FALSE, blocks |-> <<>>],
                                   today, local))

\* publish.process_image, part 2.5
publish_body(lines, today) ==
    body_with(PublishTsPattern, lines, today, FALSE)

\* reprocess.reprocess, part 2
reprocess_body(lines, today) ==
    body_with(ReprocessTsPattern, lines, today, TRUE)

\* the lines of the transcriptions
TextLines ==
    {"[[ 2025/01/02 10:00:00 EST ]]", "- [[2025 01 03 09:30 EST]] tea",
     "[[2025/02/30 10:00:00 EST]]", "* Location: Oslo", "- a", "walk", ""}

Transcriptions == UNION {[1..n -> TextLines] : n \in 1..MaxTextLines}

\* not computed yet
NoBody == [raises |-> FALSE, final_body |-> "?"]

InitBlocks ==
    /\ now = 1
    /\ date_now = Calendar[1]
    /\ CONTENT_DIR = <<>>
    /\ TEMPLATE_DIR = [t \in TemplateNames |-> 0]
    /\ script_path = 0
    /\ LOOKUP_FILE = [exists |-> FALSE, mtime |-> 0]
    /\ STATIC_DIR = NoAssets
    /\ path_exists = [p \in {"CONTENT_DIR", "STATIC_DIR"} |-> FALSE]
    /\ OUTPUT_DIR = EmptyDir
    /\ output_static = NoAssets
    /\ pc = "call"
    /\ arg \in {[op |-> "final_body", lines |-> t] : t \in Transcriptions}
    /\ loc = NoBuild
    /\ ret = [publish |-> NoBody, reprocess |-> NoBody]
    /\ h = NoHistory
    /\ nedits = 0
    /\ nruns = 0
    /\ nkills = 0

\* what the two leave alone
idle_blocks ==
    <<now, date_now, CONTENT_DIR, TEMPLATE_DIR, script_path, LOOKUP_FILE,
      STATIC_DIR, path_exists, OUTPUT_DIR, output_static, arg, loc, h,
      nedits, nruns, nkills>>

\* the two have run
both_ran(r) == r.publish # NoBody /\ r.reprocess # NoBody

\* publish.process_image comes to final_body
PublishBody ==
    /\ pc = "call"
    /\ ret.publish = NoBody
    /\ ret' = [ret EXCEPT !.publish = publish_body(arg.lines, date_now)]
    /\ pc' = IF both_ran(ret') THEN "returned" ELSE "call"
    /\ UNCHANGED idle_blocks

\* reprocess.reprocess comes to final_body
ReprocessBody ==
    /\ pc = "call"
    /\ ret.reprocess = NoBody
    /\ ret' = [ret EXCEPT !.reprocess = reprocess_body(arg.lines, date_now)]
    /\ pc' = IF both_ran(ret') THEN "returned" ELSE "call"
    /\ UNCHANGED idle_blocks

NextBlocks == PublishBody \/ ReprocessBody

SpecBlocks == InitBlocks /\ [][NextBlocks]_vars

\* C30: whenever publish.process_image comes to a final body for a
\* transcription, reprocess.reprocess comes to the same final body for it.
C30_SameFinalBody ==
    (pc = "returned" /\ arg.op = "final_body" /\ ~ret.publish.raises) =>
        /\ ~ret.reprocess.raises
        /\ ret.reprocess.final_body = ret.publish.final_body
====
